---------------------------- MODULE Spec2Model ----------------------------
(***************************************************************************)
(* A model of the BuffettBrain valuation and scoring core:                 *)
(*   src/stock_analyzer.py               StockAnalyzer                     *)
(*   src/modules/valuation_models.py     calculate_reverse_dcf             *)
(*   src/modules/fundamental_indicators.py  FundamentalIndicators          *)
(*                                                                         *)
(* NUMBERS.  Python floats are modelled in two ways.                       *)
(*  - A value held in a snapshot field or in a result is an exact rational *)
(*    n/d (record kind "num"), or one of the IEEE specials NaN and +inf.   *)
(*    Ratios, thresholds, the margin of safety and the price bands are     *)
(*    computed in exact rational arithmetic, so a boundary such as         *)
(*    MoS = 20 is hit exactly.                                             *)
(*  - The two discounted-cash-flow loops compound ten growth factors; the  *)
(*    exact rationals do not fit TLC's 32-bit integers, so inside the      *)
(*    loops money is fixed point with four decimals (DS) and a growth rate *)
(*    is fixed point with 28 binary digits (RS), each operation rounding   *)
(*    down, where Python rounds a 53-bit double to nearest.                *)
(* PYTHON VALUES.  A dict field is a record whose k is one of "absent"     *)
(* (no such key), "none" (None), "nan", "inf", "num", "bool", "str",       *)
(* "list", "err" (a raised exception).                                     *)
(***************************************************************************)
EXTENDS Integers, Sequences, FiniteSets, TLC

(***************************************************************************)
(* Exact rationals                                                         *)
(***************************************************************************)
Abs(x) == IF x < 0 THEN -x ELSE x

RECURSIVE GCD(_, _)
GCD(a, b) == IF b = 0 THEN a ELSE GCD(b, a % b)

\* The rational n/d (d # 0) in lowest terms with a positive denominator.
Q(n, d) ==
    LET g == GCD(Abs(n), Abs(d))
        s == IF d < 0 THEN -1 ELSE 1
    IN  [k |-> "num", n |-> s * (n \div g), d |-> s * (d \div g)]

Num(i) == [k |-> "num", n |-> i, d |-> 1]
Zero == Num(0)
One == Num(1)

\* n1/d1 < n2/d2 for positive denominators, by comparing the continued
\* fractions: no product is formed, so nothing overflows.
RECURSIVE FracLess(_, _, _, _)
FracLess(n1, d1, n2, d2) ==
    LET q1 == n1 \div d1
        q2 == n2 \div d2
        r1 == n1 % d1
        r2 == n2 % d2
    IN  IF q1 # q2 THEN q1 < q2
        ELSE IF r2 = 0 THEN FALSE
        ELSE IF r1 = 0 THEN TRUE
        ELSE FracLess(d2, r2, d1, r1)

(***************************************************************************)
(* Python values                                                           *)
(***************************************************************************)
Absent == [k |-> "absent", n |-> 0, d |-> 1]
NoneV == [k |-> "none", n |-> 0, d |-> 1]
NaN == [k |-> "nan", n |-> 0, d |-> 1]
Inf == [k |-> "inf", n |-> 1, d |-> 1]
ErrV == [k |-> "err", n |-> 0, d |-> 1]
Bool(b) == [k |-> "bool", n |-> IF b THEN 1 ELSE 0, d |-> 1]
Str(s) == [k |-> "str", n |-> 0, d |-> 1, s |-> s]
List(l) == [k |-> "list", n |-> 0, d |-> 1, l |-> l]

\* isinstance(v, (int, float)): bool is a subclass of int.
IsNumber(v) == v.k \in {"num", "nan", "inf", "bool"}
\* A finite number (True and False count as 1 and 0).
IsFinite(v) == v.k \in {"num", "bool"}

\* bool(v): None, 0, 0.0, False, "" and [] are falsy; NaN is truthy.
Truthy(v) ==
    CASE v.k = "none" -> FALSE
      [] v.k = "absent" -> FALSE
      [] v.k \in {"num", "bool"} -> v.n # 0
      [] v.k = "str" -> v.s # ""
      [] v.k = "list" -> v.l # <<>>
      [] OTHER -> TRUE

\* dict.get(key, default)
Get(sd, key, default) == IF sd[key].k = "absent" THEN default ELSE sd[key]
\* key in dict
Has(sd, key) == sd[key].k # "absent"
\* a or b
Or(a, b) == IF Truthy(a) THEN a ELSE b
\* dict.get(key, default) or default
GetOr(sd, key, default) == Or(Get(sd, key, default), default)

\* Float comparisons. A comparison with NaN is False; a comparison with None
\* raises TypeError, which the callers test for with Orderable first.
Orderable(v) == IsNumber(v)
FLt(a, b) ==
    IF a.k = "nan" \/ b.k = "nan" THEN FALSE
    ELSE IF a.k = "inf" THEN FALSE
    ELSE IF b.k = "inf" THEN TRUE
    ELSE FracLess(a.n, a.d, b.n, b.d)
FGt(a, b) == FLt(b, a)
FEq(a, b) ==
    IF a.k = "nan" \/ b.k = "nan" THEN FALSE
    ELSE IF a.k = "inf" \/ b.k = "inf" THEN a.k = b.k
    ELSE a.n = b.n /\ a.d = b.d
FNe(a, b) == ~FEq(a, b)
FLe(a, b) == FLt(a, b) \/ FEq(a, b)
FGe(a, b) == FLe(b, a)

\* Float arithmetic on NaN and finite numbers (the code forms no arithmetic
\* on an infinity). NaN propagates; x / 0 raises ZeroDivisionError.
FNan2(a, b) == a.k = "nan" \/ b.k = "nan"
FAdd(a, b) == IF FNan2(a, b) THEN NaN ELSE Q(a.n * b.d + b.n * a.d, a.d * b.d)
FSub(a, b) == IF FNan2(a, b) THEN NaN ELSE Q(a.n * b.d - b.n * a.d, a.d * b.d)
FMul(a, b) ==
    IF FNan2(a, b) THEN NaN
    ELSE LET g1 == GCD(Abs(a.n), b.d)
             g2 == GCD(Abs(b.n), a.d)
         IN  Q((a.n \div g1) * (b.n \div g2), (a.d \div g2) * (b.d \div g1))
FDiv(a, b) ==
    IF b.k # "nan" /\ b.n = 0 THEN ErrV
    ELSE IF FNan2(a, b) THEN NaN
    ELSE FMul(a, Q(b.d, b.n))
\* min(a, b) and max(a, b) of two arguments: the first unless the second
\* compares smaller (larger).
FMin(a, b) == IF FLt(b, a) THEN b ELSE a
FMax(a, b) == IF FGt(b, a) THEN b ELSE a

\* floor(n * m / d) for 0 <= n, 0 < m, 0 < d with d * m < 2^31.
MulDivFloor(n, m, d) == (n \div d) * m + ((n % d) * m) \div d

\* round(x, 2): to the nearest hundredth, a tie to the even hundredth.
Round2(x) ==
    IF x.k # "num" THEN x
    ELSE LET a == Abs(x.n)
             h == MulDivFloor(a, 100, x.d)
             r2 == 2 * (((a % x.d) * 100) % x.d)
             up == r2 > x.d \/ (r2 = x.d /\ h % 2 = 1)
             m == IF up THEN h + 1 ELSE h
         IN  Q(IF x.n < 0 THEN -m ELSE m, 100)

(***************************************************************************)
(* Fixed point for the discounted-cash-flow loops                          *)
(***************************************************************************)
\* Money carries four decimals; a growth rate carries 26 binary digits (RL is
\* one limb of it).
DS == 10 ^ 4
RL == 2 ^ 13
RS == RL * RL

\* floor(a * f / (L * L)) for 0 <= a, f, by limbs of base L.
MulLimb(a, f, L) ==
    LET a1 == a \div L
        a0 == a % L
        f1 == f \div L
        f0 == f % L
    IN  a1 * f1 + (a1 * f0 + a0 * f1 + (a0 * f0) \div L) \div L

\* money * factor, the factor in fixed point of scale L * L (of either sign).
MulFactor(a, f, L) ==
    IF (a < 0) = (f < 0) THEN MulLimb(Abs(a), Abs(f), L)
    ELSE -MulLimb(Abs(a), Abs(f), L)

\* A finite number as money in fixed point, and back (exactly).
ToFix(x) == MulDivFloor(x.n, DS, x.d)
FromFix(a) == Q(a, DS)

\* A finite number as a growth rate in fixed point: floor(x * RS).
RateFix(x) ==
    IF RS % x.d = 0 THEN x.n * (RS \div x.d)
    ELSE LET q1 == MulDivFloor(x.n, RL, x.d)
             r1 == ((x.n % x.d) * RL) % x.d
         IN  q1 * RL + (r1 * RL) \div x.d

\* money * q and money / q for a positive rational q with small terms.
MulByQ(a, q) == MulDivFloor(a, q.n, q.d)
DivByQ(a, q) == MulDivFloor(a, q.d, q.n)

\* money / base ** year for a rational base > 0: `year` divisions by the
\* base, each exact but for its rounding (the power itself, 1.1 ** 10 =
\* 11^10 / 10^10, does not fit).
RECURSIVE DivPow(_, _, _)
DivPow(a, base, year) ==
    IF year = 0 THEN a
    ELSE DivPow(IF a < 0 THEN -DivByQ(-a, base) ELSE DivByQ(a, base), base, year - 1)

(***************************************************************************)
(* StockAnalyzer._estimate_intrinsic_value_simple                          *)
(***************************************************************************)
\* Variant: the earnings multiple is 15 instead of 12.
SimpleWithMultiple15(sd) ==
    LET current_price == GetOr(sd, "current_price", Zero)
        eps == GetOr(sd, "eps", Zero)
    IN  IF FGt(eps, Zero) THEN FMul(eps, Num(15))
        ELSE FMul(current_price, Q(8, 10))

_estimate_intrinsic_value_simple(sd) ==
    LET current_price == GetOr(sd, "current_price", Zero)
        eps == GetOr(sd, "eps", Zero)
    IN  IF FGt(eps, Zero) THEN FMul(eps, Num(12))
        ELSE FMul(current_price, Q(8, 10))

(***************************************************************************)
(* StockAnalyzer._calculate_buffett_dcf_intrinsic_value                    *)
(***************************************************************************)
projection_years == 10
discount_rate == Q(10, 100)
terminal_growth_rate == Q(25, 1000)
growth_cap == Q(15, 100)
default_growth == 10

\* The free cash flow after the estimation steps of lines 244-256.
EstimatedFCF(sd) ==
    LET current_price == GetOr(sd, "current_price", Zero)
        free_cash_flow == GetOr(sd, "free_cash_flow", Zero)
        shares_outstanding == GetOr(sd, "shares_outstanding", Zero)
        net_income == GetOr(sd, "net_income", Zero)
        eps == GetOr(sd, "eps", Zero)
    IN  IF FLe(free_cash_flow, Zero)
        THEN IF FGt(net_income, Zero) THEN FMul(net_income, Q(8, 10))
             ELSE IF FGt(eps, Zero) /\ FGt(shares_outstanding, Zero)
                  THEN FMul(FMul(eps, shares_outstanding), Q(8, 10))
             ELSE IF FGt(current_price, Zero)
                  THEN IF FGt(shares_outstanding, Zero)
                       THEN FMul(FMul(current_price, shares_outstanding), Q(5, 100))
                       ELSE FMul(current_price, Q(5, 100))
             ELSE free_cash_flow
        ELSE free_cash_flow

\* The loop of lines 280-289 from `year` on: the projected cash flow of the
\* last year and the sum of the present values (money in fixed point).
RECURSIVE ProjectFCF(_, _, _, _)
ProjectFCF(year, projected_fcf, total_present_value, fcf_growth_rate) ==
    IF year > projection_years
    THEN [projected_fcf |-> projected_fcf, total_present_value |-> total_present_value]
    ELSE LET tg == RateFix(terminal_growth_rate)
             year_growth == fcf_growth_rate
                            - MulDivFloor(fcf_growth_rate - tg, year, projection_years)
             projected == MulFactor(projected_fcf, RS + year_growth, RL)
             \* projected_fcf / (1 + discount_rate) ** year
             present_value == DivPow(projected, FAdd(One, discount_rate), year)
         IN  ProjectFCF(year + 1, projected, total_present_value + present_value,
                        fcf_growth_rate)

\* Lines 262-303: the per-share value before the sanity checks, for finite
\* free cash flow > 0, shares > 0 and a finite growth rate.
DCFPerShare(free_cash_flow, shares_outstanding, fcf_growth_rate) ==
    LET p == ProjectFCF(1, ToFix(free_cash_flow), 0, RateFix(fcf_growth_rate))
        terminal_fcf == MulFactor(p.projected_fcf,
                                  RS + RateFix(terminal_growth_rate), RL)
        terminal_value ==
            IF terminal_fcf < 0
            THEN -DivByQ(-terminal_fcf, FSub(discount_rate, terminal_growth_rate))
            ELSE DivByQ(terminal_fcf, FSub(discount_rate, terminal_growth_rate))
        terminal_pv ==
            DivPow(terminal_value, FAdd(One, discount_rate), projection_years)
        total_intrinsic_value == p.total_present_value + terminal_pv
    IN  FDiv(FromFix(total_intrinsic_value), shares_outstanding)

\* Variant: the upper bound of the sanity checks is left out.
SanityBoundsNoCap(intrinsic_value_per_share, current_price) ==
    IF FLe(intrinsic_value_per_share, Zero) THEN FMul(current_price, Q(8, 10))
    ELSE IF ~FGt(current_price, Zero) THEN Round2(intrinsic_value_per_share)
    ELSE IF FLt(intrinsic_value_per_share, FMul(current_price, Q(2, 10)))
         THEN Round2(FMul(current_price, Q(2, 10)))
    ELSE Round2(intrinsic_value_per_share)

\* Lines 305-316: the sanity checks and the rounding.
SanityBounds(intrinsic_value_per_share, current_price) ==
    IF FLe(intrinsic_value_per_share, Zero) THEN FMul(current_price, Q(8, 10))
    ELSE IF ~FGt(current_price, Zero) THEN Round2(intrinsic_value_per_share)
    \* price_ratio > 5 and price_ratio < 0.2, the ratio being value / price
    ELSE IF FGt(intrinsic_value_per_share, FMul(current_price, Num(5)))
         THEN Round2(FMul(current_price, Num(5)))
    ELSE IF FLt(intrinsic_value_per_share, FMul(current_price, Q(2, 10)))
         THEN Round2(FMul(current_price, Q(2, 10)))
    ELSE Round2(intrinsic_value_per_share)

\* Variant: only a missing earnings_growth is replaced, a 0 is used as given.
GrowthRateZeroKept(sd) ==
    LET earnings_growth == Get(sd, "earnings_growth", Num(default_growth))
    IN  FMin(FDiv(earnings_growth, Num(100)), growth_cap)

\* Lines 270-271: stock_data.get('earnings_growth', 10) or 10, as a
\* fraction and capped.
GrowthRate(sd) ==
    LET earnings_growth == GetOr(sd, "earnings_growth", Num(default_growth))
    IN  FMin(FDiv(earnings_growth, Num(100)), growth_cap)

_calculate_buffett_dcf_intrinsic_value(sd) ==
    LET current_price == GetOr(sd, "current_price", Zero)
        shares_outstanding == GetOr(sd, "shares_outstanding", Zero)
        free_cash_flow == EstimatedFCF(sd)
        fcf_growth_rate == GrowthRate(sd)
    IN  IF FLe(free_cash_flow, Zero) \/ FLe(shares_outstanding, Zero)
        THEN _estimate_intrinsic_value_simple(sd)
        ELSE IF free_cash_flow.k = "nan" \/ shares_outstanding.k = "nan"
                \/ fcf_growth_rate.k = "nan"
        \* a NaN operand makes the per-share value NaN, which passes every
        \* comparison of the sanity checks as False
        THEN NaN
        ELSE SanityBounds(
                 DCFPerShare(free_cash_flow, shares_outstanding, fcf_growth_rate),
                 current_price)

(***************************************************************************)
(* The snapshot (stock_data): a dict, modelled as a function on Keys       *)
(***************************************************************************)
RawKeys ==
    {"currency", "current_price", "shares_outstanding", "market_cap",
     "pe_ratio", "pb_ratio", "book_value", "eps", "dividend_yield",
     "total_revenue", "operating_income", "net_income", "total_debt",
     "total_stockholder_equity", "total_current_assets",
     "total_current_liabilities", "revenue_growth", "earnings_growth",
     "revenue_growth_years", "earnings_growth_years", "net_income_history",
     "raw_financials", "raw_balance_sheet", "raw_cash_flow"}
\* Keys of the snapshot that _calculate_derived_metrics writes as well.
SharedKeys == {"free_cash_flow", "peg_ratio", "promoter_holding"}
DerivedKeys ==
    {"debt_to_equity", "current_ratio", "roe", "operating_margin", "roce",
     "peg_ratio", "book_value_check", "intrinsic_value", "growth_alignment",
     "earnings_consistency", "free_cash_flow", "dividend_history",
     "promoter_holding", "promoter_pledging"}
Keys == RawKeys \cup SharedKeys \cup DerivedKeys

\* dict.update(other)
Update(sd, other) ==
    [key \in Keys |-> IF key \in DOMAIN other THEN other[key] ELSE sd[key]]

(***************************************************************************)
(* StockAnalyzer._calculate_derived_metrics                                *)
(***************************************************************************)
_calculate_derived_metrics(sd) ==
    LET total_debt == GetOr(sd, "total_debt", Zero)
        total_equity == GetOr(sd, "total_stockholder_equity", One)
        current_assets == GetOr(sd, "total_current_assets", Zero)
        current_liabilities == GetOr(sd, "total_current_liabilities", One)
        net_income == GetOr(sd, "net_income", Zero)
        operating_income == GetOr(sd, "operating_income", Zero)
        total_revenue == GetOr(sd, "total_revenue", One)
        total_capital == FAdd(total_equity, total_debt)
        pe_ratio == GetOr(sd, "pe_ratio", Zero)
        earnings_growth == GetOr(sd, "earnings_growth", One)
        book_value == GetOr(sd, "book_value", Zero)
        current_price == GetOr(sd, "current_price", Zero)
        revenue_growth == GetOr(sd, "revenue_growth", Zero)
        profit_growth == GetOr(sd, "earnings_growth", Zero)
        free_cash_flow == GetOr(sd, "free_cash_flow", Zero)
        dividend_yield == GetOr(sd, "dividend_yield", Zero)
    IN  [debt_to_equity |->
            IF FGt(total_equity, Zero) THEN FDiv(total_debt, total_equity) ELSE Inf,
         current_ratio |->
            IF FGt(current_liabilities, Zero)
            THEN FDiv(current_assets, current_liabilities) ELSE Zero,
         roe |->
            IF FGt(total_equity, Zero)
            THEN FMul(FDiv(net_income, total_equity), Num(100)) ELSE Zero,
         operating_margin |->
            IF FGt(total_revenue, Zero)
            THEN FMul(FDiv(operating_income, total_revenue), Num(100)) ELSE Zero,
         roce |->
            IF FGt(total_capital, Zero)
            THEN FMul(FDiv(operating_income, total_capital), Num(100)) ELSE Zero,
         peg_ratio |->
            IF FGt(earnings_growth, Zero) THEN FDiv(pe_ratio, earnings_growth) ELSE Inf,
         book_value_check |-> Bool(FLt(current_price, book_value)),
         intrinsic_value |-> _calculate_buffett_dcf_intrinsic_value(sd),
         growth_alignment |->
            IF FGt(revenue_growth, Zero) /\ FGt(profit_growth, Zero)
            THEN FDiv(FMin(revenue_growth, profit_growth),
                      FMax(revenue_growth, profit_growth))
            ELSE Zero,
         earnings_consistency |-> NoneV,
         free_cash_flow |-> Bool(FGt(free_cash_flow, Zero)),
         dividend_history |-> Bool(FGt(dividend_yield, Zero)),
         promoter_holding |-> Get(sd, "promoter_holding", Zero),
         promoter_pledging |-> Zero]

(***************************************************************************)
(* StockAnalyzer._initialize_buffett_criteria                              *)
(***************************************************************************)
buffett_criteria ==
    << [name |-> "Return on Equity (ROE)", key |-> "roe",
        good_threshold |-> Num(15), bad_threshold |-> Num(10)],
       [name |-> "Debt-to-Equity Ratio", key |-> "debt_to_equity",
        excellent_threshold |-> Q(5, 10), avoid_threshold |-> Num(1)],
       [name |-> "Current Ratio", key |-> "current_ratio",
        good_threshold |-> Q(15, 10), bad_threshold |-> Num(1)],
       [name |-> "Book Value Per Share", key |-> "book_value_check"],
       [name |-> "Price-to-Earnings (P/E) Ratio", key |-> "pe_ratio",
        fair_min |-> Num(10), fair_max |-> Num(15), okay_max |-> Num(25)],
       [name |-> "Price-to-Book (P/B) Ratio", key |-> "pb_ratio",
        good_threshold |-> Q(15, 10)],
       [name |-> "Intrinsic Value vs Market Price", key |-> "intrinsic_value_check",
        discount_threshold |-> Num(20)],
       [name |-> "Operating Profit Margin (OPM)", key |-> "operating_margin",
        good_threshold |-> Num(15)],
       [name |-> "Revenue vs Profit Growth", key |-> "growth_alignment",
        alignment_threshold |-> Q(8, 10)],
       [name |-> "Return on Capital Employed (ROCE)", key |-> "roce",
        good_threshold |-> Num(15)],
       [name |-> "PEG Ratio", key |-> "peg_ratio", good_threshold |-> Num(1)],
       [name |-> "Earnings Growth", key |-> "earnings_growth",
        good_threshold |-> Num(8)],
       [name |-> "Consistent Earnings", key |-> "earnings_consistency",
        volatility_threshold |-> Q(3, 10)],
       [name |-> "Free Cash Flow", key |-> "free_cash_flow",
        growth_threshold |-> Zero],
       [name |-> "Dividend History", key |-> "dividend_history",
        years_threshold |-> Num(3)] >>

(***************************************************************************)
(* StockAnalyzer._evaluate_criterion                                       *)
(*                                                                         *)
(* A result is the returned dict; `value` is the display string, kept as   *)
(* its format and the number formatted. `branch` is not in the code: it    *)
(* records the source line of the elif arm that ran. A raised exception is *)
(* the record Raised(...).                                                 *)
(***************************************************************************)
Shown(fmt, v) == [fmt |-> fmt, v |-> v]
NA == Shown("N/A", NoneV)

Result(criterion, value, status, passed, branch) ==
    [raised |-> FALSE, name |-> criterion.name, key |-> criterion.key,
     value |-> value, status |-> status, passed |-> passed, branch |-> branch]
Raised(exc, line) == [raised |-> TRUE, exc |-> exc, line |-> line]

\* `value` as looked up by lines 342-345.
Lookup(sd, key) == IF key \in Keys /\ Has(sd, key) THEN Shown("raw", sd[key]) ELSE NA

\* roe (351), operating_margin and roce (446): good above the threshold,
\* caution above `low`.
EvalAbove(sd, c, low, branch) ==
    LET value == Lookup(sd, c.key)
    IN  IF value.fmt = "raw" /\ IsNumber(value.v)
        THEN IF FGt(value.v, c.good_threshold)
             THEN Result(c, Shown("pct2", value.v), "good", TRUE, branch)
             ELSE IF FGt(value.v, low)
             THEN Result(c, Shown("pct2", value.v), "caution", FALSE, branch)
             ELSE Result(c, Shown("pct2", value.v), "poor", FALSE, branch)
        ELSE Result(c, value, "poor", FALSE, branch)

EvalDebtToEquity(sd, c) ==
    LET value == Lookup(sd, c.key)
    IN  IF value.fmt = "raw" /\ IsNumber(value.v)
        THEN IF FLt(value.v, c.excellent_threshold)
             THEN Result(c, Shown("num2", value.v), "good", TRUE, 360)
             ELSE IF FLe(value.v, c.avoid_threshold)
             THEN Result(c, Shown("num2", value.v), "caution", FALSE, 360)
             ELSE Result(c, Shown("num2", value.v), "poor", FALSE, 360)
        ELSE Result(c, value, "poor", FALSE, 360)

EvalCurrentRatio(sd, c) ==
    LET value == Lookup(sd, c.key)
    IN  IF value.fmt = "raw" /\ IsNumber(value.v)
        THEN IF FGt(value.v, c.good_threshold)
             THEN Result(c, Shown("num2", value.v), "good", TRUE, 369)
             ELSE IF FGe(value.v, c.bad_threshold)
             THEN Result(c, Shown("num2", value.v), "caution", FALSE, 369)
             ELSE Result(c, Shown("num2", value.v), "poor", FALSE, 369)
        ELSE Result(c, value, "poor", FALSE, 369)

\* currency_symbols.get(currency, currency + ' ') evaluates currency + ' '
\* whatever the currency: a TypeError unless the currency is a string.
CurrencyConcatRaises(sd) == Get(sd, "currency", Str("INR")).k # "str"

EvalBookValue(sd, c) ==
    LET book_value == GetOr(sd, "book_value", Zero)
        current_price == GetOr(sd, "current_price", Zero)
    IN  IF CurrencyConcatRaises(sd) THEN Raised("TypeError", 384)
        ELSE IF FGt(book_value, Zero)
        THEN IF FLt(current_price, book_value)
             THEN Result(c, Shown("book", book_value), "good", TRUE, 378)
             ELSE Result(c, Shown("book", book_value), "poor", FALSE, 378)
        ELSE Result(c, NA, "poor", FALSE, 378)

EvalPE(sd, c) ==
    LET pe_value == Get(sd, "pe_ratio", Zero)
    IN  IF IsNumber(pe_value) /\ FGt(pe_value, Zero)
        THEN IF FLe(c.fair_min, pe_value) /\ FLe(pe_value, c.fair_max)
             THEN Result(c, Shown("num2", pe_value), "good", TRUE, 395)
             ELSE IF FLe(pe_value, c.okay_max)
             THEN Result(c, Shown("num2", pe_value), "caution", FALSE, 395)
             ELSE Result(c, Shown("num2", pe_value), "poor", FALSE, 395)
        ELSE Result(c, NA, "poor", FALSE, 395)

EvalPB(sd, c) ==
    LET pb_value == Get(sd, "pb_ratio", Zero)
    IN  IF IsNumber(pb_value) /\ FGt(pb_value, Zero)
        THEN IF FLt(pb_value, c.good_threshold)
             THEN Result(c, Shown("num2", pb_value), "good", TRUE, 407)
             ELSE IF FLt(pb_value, Num(2))
             THEN Result(c, Shown("num2", pb_value), "caution", FALSE, 407)
             ELSE Result(c, Shown("num2", pb_value), "poor", FALSE, 407)
        ELSE Result(c, NA, "poor", FALSE, 407)

\* Variant: the margin is taken over the price, (iv - price) / price.
MarginOverPrice(current_price, intrinsic_value) ==
    FMul(FDiv(FSub(intrinsic_value, current_price), current_price), Num(100))

\* (1 - price / value) * 100 as binary floating point evaluates it. The
\* quotients 4/5 and 9/10 are rounded up by the division, and the margin
\* comes out as 19.999999999999996 and 9.999999999999998: below the
\* thresholds 20 and 10, which the exact value meets. Every other margin of
\* the inputs drawn here lies on the same side of 20, 10 and 0 as its exact
\* value. The two rounded margins are held as the exact value less
\* MarginRounding, which is smaller than the distance between any two
\* margins that are drawn.
MarginRounding == Q(1, 1000000)
FloatMargin(current_price, intrinsic_value) ==
    LET quotient == FDiv(current_price, intrinsic_value)
        exact == FMul(FSub(One, quotient), Num(100))
    IN  IF quotient \in {Q(4, 5), Q(9, 10)} THEN FSub(exact, MarginRounding)
        ELSE exact

\* Line 430: the margin of safety of the intrinsic-value criterion.
CriterionMarginOfSafety(current_price, intrinsic_value) ==
    FloatMargin(current_price, intrinsic_value)

\* Lines 432-436: the status; the criterion is passed when it is good.
MarginBand(margin_of_safety, discount_threshold) ==
    IF FGe(margin_of_safety, discount_threshold) THEN "good"
    ELSE IF FGt(margin_of_safety, Zero) THEN "caution"
    ELSE "poor"

EvalIntrinsicValue(sd, c) ==
    LET current_price == Get(sd, "current_price", Zero)
        intrinsic_value == Get(sd, "intrinsic_value", Zero)
        margin_of_safety == CriterionMarginOfSafety(current_price, intrinsic_value)
    IN  IF CurrencyConcatRaises(sd) THEN Raised("TypeError", 424)
        ELSE IF ~Orderable(current_price) THEN Raised("TypeError", 426)
        ELSE IF FGt(current_price, Zero) /\ ~Orderable(intrinsic_value)
        THEN Raised("TypeError", 426)
        ELSE IF FGt(current_price, Zero) /\ FGt(intrinsic_value, Zero)
        THEN LET status == MarginBand(margin_of_safety, c.discount_threshold)
             IN  Result(c, Shown("mos", margin_of_safety), status,
                        status = "good", 419)
        ELSE Result(c, NA, "poor", FALSE, 419)

\* Variant: the caution flag is raised below a ratio of 0.4.
AlignmentStatusBelowTwoFifths(revenue_growth, profit_growth) ==
    IF FGt(revenue_growth, Zero) /\ FGt(profit_growth, Zero)
    THEN IF FLt(FDiv(FMin(revenue_growth, profit_growth),
                     FMax(revenue_growth, profit_growth)), Q(4, 10))
         THEN "caution" ELSE "good"
    ELSE "poor"

\* Lines 461-469: good when both growths are positive, caution when the
\* smaller is less than half the larger.
AlignmentStatus(revenue_growth, profit_growth) ==
    IF FGt(revenue_growth, Zero) /\ FGt(profit_growth, Zero)
    THEN LET alignment_ratio == FDiv(FMin(revenue_growth, profit_growth),
                                     FMax(revenue_growth, profit_growth))
         IN  IF FLt(alignment_ratio, Q(5, 10)) THEN "caution" ELSE "good"
    ELSE "poor"

EvalGrowthAlignment(sd, c) ==
    LET revenue_growth == GetOr(sd, "revenue_growth", Zero)
        profit_growth == GetOr(sd, "earnings_growth", Zero)
        years == Or(Get(sd, "revenue_growth_years", Zero),
                    Get(sd, "earnings_growth_years", Zero))
        both == FGt(revenue_growth, Zero) /\ FGt(profit_growth, Zero)
        status == AlignmentStatus(revenue_growth, profit_growth)
    IN  IF ~Orderable(years) THEN Raised("TypeError", 476)
        ELSE IF FGt(years, Zero) \/ FNe(revenue_growth, Zero)
                \/ FNe(profit_growth, Zero)
        THEN Result(c, Shown("growth", revenue_growth), status, both, 455)
        ELSE Result(c, Shown("N/A (Data not available)", NoneV), "caution", both, 455)

\* all(val > 0 for val in trend_values), and whether a value of the list
\* that cannot be compared (line 503) or passed to abs (line 521) is met.
\* Variant: a year of exactly 0 counts as a year without loss.
NoneNegative(l) == \A i \in 1..Len(l) : FGe(l[i], Zero)
AllPositive(l) == \A i \in 1..Len(l) : FGt(l[i], Zero)
HistoryRaises(l) == \E i \in 1..Len(l) : ~Orderable(l[i])

EvalEarningsConsistency(sd, c) ==
    LET income_history == Get(sd, "net_income_history", List(<<>>))
    IN  IF Truthy(income_history) /\ income_history.k # "list"
        THEN Raised("TypeError", 498)
        ELSE IF Truthy(income_history) /\ Len(income_history.l) >= 2
        THEN IF HistoryRaises(income_history.l) THEN Raised("TypeError", 503)
             ELSE IF AllPositive(income_history.l)
             THEN Result(c, Shown("Consistent", NoneV), "good", TRUE, 492)
             ELSE Result(c, Shown("Volatile", NoneV), "poor", FALSE, 492)
        ELSE Result(c, Shown("N/A (Insufficient Data)", NoneV), "poor", FALSE, 492)

EvalPEG(sd, c) ==
    LET value == Lookup(sd, c.key)
    IN  IF value.fmt = "raw" /\ IsNumber(value.v) /\ value.v.k # "inf"
        THEN IF FLt(value.v, c.good_threshold)
             THEN Result(c, Shown("num2", value.v), "good", TRUE, 542)
             ELSE IF FLt(value.v, Q(15, 10))
             THEN Result(c, Shown("num2", value.v), "caution", FALSE, 542)
             ELSE Result(c, Shown("num2", value.v), "poor", FALSE, 542)
        ELSE Result(c, NA, "poor", FALSE, 542)

EvalEarningsGrowth(sd, c) ==
    LET earnings_growth == Get(sd, "earnings_growth", Zero)
    IN  IF IsNumber(earnings_growth)
        THEN IF FGt(earnings_growth, c.good_threshold)
             THEN Result(c, Shown("pct2", earnings_growth), "good", TRUE, 553)
             ELSE IF FGt(earnings_growth, Zero)
             THEN Result(c, Shown("pct2", earnings_growth), "caution", FALSE, 553)
             ELSE Result(c, Shown("pct2", earnings_growth), "poor", FALSE, 553)
        ELSE Result(c, NA, "poor", FALSE, 553)

\* The second earnings_consistency arm (line 565), on the looked-up value.
EvalConsistencyRatio(sd, c) ==
    LET value == Lookup(sd, c.key)
    IN  IF value.fmt = "raw" /\ IsNumber(value.v)
        THEN IF FGt(value.v, Q(6, 10))
             THEN Result(c, Shown("num2", value.v), "good", TRUE, 565)
             ELSE IF FGt(value.v, Q(4, 10))
             THEN Result(c, Shown("num2", value.v), "caution", FALSE, 565)
             ELSE Result(c, Shown("num2", value.v), "poor", FALSE, 565)
        ELSE Result(c, NA, "poor", FALSE, 565)

\* Variant: a flag whose absence is only a caution counts as passed.
EvalFlagNotMandatory(sd, c, yes, no, else_status, branch) ==
    LET value == Lookup(sd, c.key)
    IN  IF value.fmt = "raw" /\ value.v.k = "bool"
        THEN IF value.v.n = 1
             THEN Result(c, Shown(yes, NoneV), "good", TRUE, branch)
             ELSE Result(c, Shown(no, NoneV), else_status,
                         else_status = "caution", branch)
        ELSE Result(c, value, "poor", FALSE, branch)

\* free_cash_flow (577) and dividend_history (584): a bool flag.
EvalFlag(sd, c, yes, no, else_status, branch) ==
    LET value == Lookup(sd, c.key)
    IN  IF value.fmt = "raw" /\ value.v.k = "bool"
        THEN IF value.v.n = 1
             THEN Result(c, Shown(yes, NoneV), "good", TRUE, branch)
             ELSE Result(c, Shown(no, NoneV), else_status, FALSE, branch)
        ELSE Result(c, value, "poor", FALSE, branch)

_evaluate_criterion(sd, criterion) ==
    LET key == criterion.key
    IN  IF key = "roe" THEN EvalAbove(sd, criterion, criterion.bad_threshold, 351)
        ELSE IF key = "debt_to_equity" THEN EvalDebtToEquity(sd, criterion)
        ELSE IF key = "current_ratio" THEN EvalCurrentRatio(sd, criterion)
        ELSE IF key = "book_value_check" THEN EvalBookValue(sd, criterion)
        ELSE IF key = "pe_ratio" THEN EvalPE(sd, criterion)
        ELSE IF key = "pb_ratio" THEN EvalPB(sd, criterion)
        ELSE IF key = "intrinsic_value_check" THEN EvalIntrinsicValue(sd, criterion)
        ELSE IF key \in {"operating_margin", "roce"}
        THEN EvalAbove(sd, criterion, FMul(criterion.good_threshold, Q(7, 10)), 446)
        ELSE IF key = "growth_alignment" THEN EvalGrowthAlignment(sd, criterion)
        ELSE IF key = "earnings_consistency" THEN EvalEarningsConsistency(sd, criterion)
        ELSE IF key = "peg_ratio" THEN EvalPEG(sd, criterion)
        ELSE IF key = "earnings_growth" THEN EvalEarningsGrowth(sd, criterion)
        ELSE IF key = "earnings_consistency" THEN EvalConsistencyRatio(sd, criterion)
        ELSE IF key = "free_cash_flow"
        THEN EvalFlag(sd, criterion, "Positive", "Negative", "poor", 577)
        ELSE IF key = "dividend_history"
        THEN EvalFlag(sd, criterion, "Yes", "No", "caution", 584)
        ELSE Result(criterion, Lookup(sd, key), "poor", FALSE, 590)

(***************************************************************************)
(* StockAnalyzer._generate_recommendation                                  *)
(***************************************************************************)
\* Lines 605-608: the margin of safety of the recommendation.
RecommendationMarginOfSafety(current_price, intrinsic_value) ==
    IF FGt(current_price, Zero) /\ FGt(intrinsic_value, Zero)
    THEN FloatMargin(current_price, intrinsic_value)
    ELSE Zero

\* Variant: the second Buy row asks for a score of 9.
ArmLoose(total_score, margin_of_safety) ==
    IF total_score >= 12 /\ FGe(margin_of_safety, Num(20)) THEN 1
    ELSE IF total_score >= 9 /\ FGe(margin_of_safety, Num(10)) THEN 2
    ELSE IF total_score >= 8 \/ FGe(margin_of_safety, Zero) THEN 3
    ELSE 4

\* The arm of the if-chain of lines 611-629 that runs: 1 and 2 are the Buy
\* rows, 3 is Hold, 4 is Avoid.
Arm(total_score, margin_of_safety) ==
    IF total_score >= 12 /\ FGe(margin_of_safety, Num(20)) THEN 1
    ELSE IF total_score >= 10 /\ FGe(margin_of_safety, Num(10)) THEN 2
    ELSE IF total_score >= 8 \/ FGe(margin_of_safety, Zero) THEN 3
    ELSE 4

\* Variant: the targets of Hold and Avoid are exchanged.
ArmResultSwapped(arm, current_price, intrinsic_value) ==
    IF arm = 1
    THEN [status |-> "Buy", buy_price_min |-> FMul(current_price, Q(95, 100)),
          buy_price_max |-> FMul(current_price, Q(105, 100))]
    ELSE IF arm = 2
    THEN [status |-> "Buy", buy_price_min |-> FMul(current_price, Q(9, 10)),
          buy_price_max |-> current_price]
    ELSE IF arm = 3
    THEN LET target_price == FMul(intrinsic_value, Q(7, 10))
         IN  [status |-> "Hold", buy_price_min |-> FMul(target_price, Q(9, 10)),
              buy_price_max |-> target_price]
    ELSE LET target_price == FMul(intrinsic_value, Q(8, 10))
         IN  [status |-> "Avoid", buy_price_min |-> FMul(target_price, Q(9, 10)),
              buy_price_max |-> target_price]

\* status, buy_price_min and buy_price_max as the arm assigns them.
ArmResult(arm, current_price, intrinsic_value) ==
    IF arm = 1
    THEN [status |-> "Buy", buy_price_min |-> FMul(current_price, Q(95, 100)),
          buy_price_max |-> FMul(current_price, Q(105, 100))]
    ELSE IF arm = 2
    THEN [status |-> "Buy", buy_price_min |-> FMul(current_price, Q(9, 10)),
          buy_price_max |-> current_price]
    ELSE IF arm = 3
    THEN LET target_price == FMul(intrinsic_value, Q(8, 10))
         IN  [status |-> "Hold", buy_price_min |-> FMul(target_price, Q(9, 10)),
              buy_price_max |-> target_price]
    ELSE LET target_price == FMul(intrinsic_value, Q(7, 10))
         IN  [status |-> "Avoid", buy_price_min |-> FMul(target_price, Q(9, 10)),
              buy_price_max |-> target_price]

\* The returned dict (lines 630-639), or the TypeError of line 605 when an
\* operand of `> 0` is not a number.
_generate_recommendation(sd, total_score) ==
    LET current_price == Get(sd, "current_price", Zero)
        intrinsic_value == Get(sd, "intrinsic_value", current_price)
        margin_of_safety == RecommendationMarginOfSafety(current_price, intrinsic_value)
        r == ArmResult(Arm(total_score, margin_of_safety), current_price,
                       intrinsic_value)
    IN  IF ~Orderable(current_price) THEN Raised("TypeError", 605)
        ELSE IF FGt(current_price, Zero) /\ ~Orderable(intrinsic_value)
        THEN Raised("TypeError", 605)
        ELSE [raised |-> FALSE, status |-> r.status,
              current_price |-> current_price,
              intrinsic_value |-> intrinsic_value,
              margin_of_safety |-> margin_of_safety,
              buy_price_min |-> r.buy_price_min,
              buy_price_max |-> r.buy_price_max,
              target_price |-> r.buy_price_max]

(***************************************************************************)
(* pandas.DataFrame, as far as the code reads one: the column labels in    *)
(* order, and for each row label of the index the values of the columns.   *)
(***************************************************************************)
DF(cols, rows) == [k |-> "df", n |-> 0, d |-> 1, cols |-> cols, rows |-> rows]
EmptyDF == DF(<<>>, <<>>)

IsDF(v) == v.k = "df"
\* df.empty
DFEmpty(df) == df.cols = <<>> \/ DOMAIN df.rows = {}
\* row in df.index
InIndex(df, row) == row \in DOMAIN df.rows
ColSet(df) == {df.cols[i] : i \in 1..Len(df.cols)}
\* df.loc[row, col]: KeyError without the row or the column.
Loc(df, row, col) ==
    IF row \in DOMAIN df.rows /\ col \in ColSet(df)
    THEN df.rows[row][CHOOSE i \in 1..Len(df.cols) : df.cols[i] = col]
    ELSE ErrV
\* df.loc[row, col] if row in df.index else 0
LocOrZero(df, row, col) == IF InIndex(df, row) THEN Loc(df, row, col) ELSE Zero

\* sorted(df.columns, reverse=True)
RECURSIVE SortedDesc(_)
SortedDesc(S) ==
    IF S = {} THEN <<>>
    ELSE LET m == CHOOSE x \in S : \A y \in S : y <= x
         IN  <<m>> \o SortedDesc(S \ {m})

\* get_val of get_piotroski_f_score and get_roic (lines 33-37, 172-176).
get_val(df, row, col) ==
    IF InIndex(df, row)
    THEN LET val == Loc(df, row, col)
         IN  IF val.k \in {"nan", "none"} THEN Zero ELSE val
    ELSE Zero
\* a or b where a raised, or else is chosen if truthy.
OrVal(a, b) == IF a.k = "err" THEN a ELSE IF Truthy(a) THEN a ELSE b
\* x / y if y else 0
DivOrZero(x, y) == IF Truthy(y) THEN FDiv(x, y) ELSE Zero

(***************************************************************************)
(* FundamentalIndicators.get_piotroski_f_score                             *)
(***************************************************************************)
PiotroskiLabels ==
    << "Positive ROA", "Positive OCF", "ROA Increasing",
       "Quality of Earnings (OCF > NI)", "Lower Leverage",
       "Higher Liquidity (Current Ratio)", "No Dilution",
       "Higher Gross Margin", "Higher Asset Turnover" >>

\* The nine tests of lines 41-152 on the two newest columns t and t_1:
\* for each, whether a lookup of the test raises (KeyError) and whether the
\* test holds.
PiotroskiTests(financials, balance_sheet, cash_flow, t, t_1) ==
    LET net_income == get_val(financials, "Net Income", t)
        total_assets == OrVal(get_val(balance_sheet, "Total Assets", t), One)
        total_assets_prev ==
            OrVal(get_val(balance_sheet, "Total Assets", t_1), total_assets)
        avg_assets == FDiv(FAdd(total_assets, total_assets_prev), Num(2))
        roa == DivOrZero(net_income, avg_assets)
        ocf == get_val(cash_flow, "Total Cash From Operating Activities", t)
        net_income_prev == get_val(financials, "Net Income", t_1)
        roa_prev == DivOrZero(net_income_prev, total_assets_prev)
        lt_debt == get_val(balance_sheet, "Long Term Debt", t)
        lt_debt_prev == get_val(balance_sheet, "Long Term Debt", t_1)
        leverage == DivOrZero(lt_debt, avg_assets)
        leverage_prev == DivOrZero(lt_debt_prev, total_assets_prev)
        curr_assets == get_val(balance_sheet, "Current Assets", t)
        curr_liab == get_val(balance_sheet, "Current Liabilities", t)
        curr_ratio == DivOrZero(curr_assets, curr_liab)
        curr_assets_prev == get_val(balance_sheet, "Current Assets", t_1)
        curr_liab_prev == get_val(balance_sheet, "Current Liabilities", t_1)
        curr_ratio_prev == DivOrZero(curr_assets_prev, curr_liab_prev)
        shares == OrVal(get_val(balance_sheet, "Ordinary Shares Number", t),
                        get_val(balance_sheet, "Common Stock", t))
        shares_prev == OrVal(get_val(balance_sheet, "Ordinary Shares Number", t_1),
                             get_val(balance_sheet, "Common Stock", t_1))
        revenue == get_val(financials, "Total Revenue", t)
        gross_profit == get_val(financials, "Gross Profit", t)
        gm == DivOrZero(gross_profit, revenue)
        revenue_prev == get_val(financials, "Total Revenue", t_1)
        gross_profit_prev == get_val(financials, "Gross Profit", t_1)
        gm_prev == DivOrZero(gross_profit_prev, revenue_prev)
        asset_turnover == DivOrZero(revenue, avg_assets)
        asset_turnover_prev == DivOrZero(revenue_prev, total_assets_prev)
        Err(vs) == \E v \in vs : v.k = "err"
    IN  << [raises |-> Err({net_income, total_assets, total_assets_prev}),
            holds |-> FGt(roa, Zero)],
           [raises |-> Err({ocf}), holds |-> FGt(ocf, Zero)],
           [raises |-> Err({net_income_prev}), holds |-> FGt(roa, roa_prev)],
           [raises |-> FALSE, holds |-> FGt(ocf, net_income)],
           [raises |-> Err({lt_debt, lt_debt_prev}),
            holds |-> FLe(leverage, leverage_prev)],
           [raises |-> Err({curr_assets, curr_liab, curr_assets_prev, curr_liab_prev}),
            holds |-> FGt(curr_ratio, curr_ratio_prev)],
           [raises |-> Err({shares, shares_prev}), holds |-> FLe(shares, shares_prev)],
           [raises |-> Err({revenue, gross_profit, revenue_prev, gross_profit_prev}),
            holds |-> FGt(gm, gm_prev)],
           [raises |-> FALSE, holds |-> FGt(asset_turnover, asset_turnover_prev)] >>

\* Variant: the dilution test (the seventh) records its detail without its
\* point.
PointButDilution(score, step, holds) ==
    IF holds /\ step # 7 THEN score + 1 ELSE score

\* score += 1 of the test `step` when it holds.
Point(score, step, holds) == IF holds THEN score + 1 ELSE score

\* Variant: an exception discards the details recorded before it and keeps
\* the points.
RECURSIVE PiotroskiDiscarding(_, _, _, _)
PiotroskiDiscarding(step, tests, score, details) ==
    IF step > Len(tests) THEN [score |-> score, details |-> details]
    ELSE IF tests[step].raises THEN [score |-> score, details |-> <<>>]
    ELSE PiotroskiDiscarding(step + 1, tests,
                             Point(score, step, tests[step].holds),
                             Append(details, [label |-> PiotroskiLabels[step],
                                              value |-> tests[step].holds]))

\* The tests from `step` on, in order: each adds its point and its detail;
\* an exception ends the evaluation with what was recorded before it
\* (lines 154-157).
RECURSIVE PiotroskiFrom(_, _, _, _)
PiotroskiFrom(step, tests, score, details) ==
    IF step > Len(tests) \/ tests[step].raises
    THEN [score |-> score, details |-> details]
    ELSE PiotroskiFrom(step + 1, tests, Point(score, step, tests[step].holds),
                       Append(details, [label |-> PiotroskiLabels[step],
                                        value |-> tests[step].holds]))

get_piotroski_f_score(financials, balance_sheet, cash_flow) ==
    LET zero == [score |-> 0, details |-> <<>>]
        cols == SortedDesc(ColSet(financials))
    IN  \* .empty of an object that is no DataFrame raises AttributeError,
        \* caught with score 0 and no detail
        IF ~IsDF(financials) THEN zero
        ELSE IF DFEmpty(financials) THEN zero
        ELSE IF ~IsDF(balance_sheet) THEN zero
        ELSE IF DFEmpty(balance_sheet) THEN zero
        ELSE IF ~IsDF(cash_flow) THEN zero
        ELSE IF DFEmpty(cash_flow) THEN zero
        ELSE IF Len(cols) < 2 THEN zero
        ELSE PiotroskiFrom(1, PiotroskiTests(financials, balance_sheet, cash_flow,
                                             cols[1], cols[2]), 0, <<>>)

(***************************************************************************)
(* FundamentalIndicators.get_roic                                          *)
(***************************************************************************)
get_roic(financials, balance_sheet) ==
    IF ~IsDF(financials) THEN Zero
    ELSE IF financials.cols = <<>> THEN Zero
    ELSE IF ~IsDF(balance_sheet) THEN Zero
    ELSE LET t == SortedDesc(ColSet(financials))[1]
             net_income == get_val(financials, "Net Income", t)
             equity == OrVal(get_val(balance_sheet, "Total Stockholder Equity", t),
                             get_val(balance_sheet, "Stockholders Equity", t))
             debt == OrVal(get_val(balance_sheet, "Long Term Debt", t),
                           get_val(balance_sheet, "Total Debt", t))
             invested_capital == FAdd(equity, debt)
         IN  IF net_income.k = "err" \/ equity.k = "err" \/ debt.k = "err" THEN Zero
             ELSE IF FEq(invested_capital, Zero) THEN Zero
             ELSE FMul(FDiv(net_income, invested_capital), Num(100))

(***************************************************************************)
(* FundamentalIndicators.get_altman_z_score                                *)
(***************************************************************************)
AltmanUnknown == [score |-> Zero, zone |-> "Unknown"]

\* Variant: the zone bounds taken inclusively (>= 2.99, >= 1.81).
AltmanZoneInclusive(z_score) ==
    IF FGe(z_score, Q(299, 100)) THEN "Safe (Green)"
    ELSE IF FGe(z_score, Q(181, 100)) THEN "Grey Zone (Caution)"
    ELSE "Distress (Red)"

\* Lines 237-242; a NaN z_score compares False twice and falls to the else.
AltmanZone(z_score) ==
    IF FGt(z_score, Q(299, 100)) THEN "Safe (Green)"
    ELSE IF FGt(z_score, Q(181, 100)) THEN "Grey Zone (Caution)"
    ELSE "Distress (Red)"

\* Variant: D without the guard on total_liab.
AltmanDUnguarded(market_cap, total_liab) ==
    IF ~IsNumber(market_cap) THEN ErrV ELSE FDiv(market_cap, total_liab)

\* Line 230: market_cap / total_liab if total_liab else 0; a market_cap
\* that is no number raises TypeError in the division.
AltmanD(market_cap, total_liab) ==
    IF ~Truthy(total_liab) THEN Zero
    ELSE IF ~IsNumber(market_cap) THEN ErrV
    ELSE FDiv(market_cap, total_liab)

get_altman_z_score(financials, balance_sheet, market_cap) ==
    IF ~IsDF(financials) THEN AltmanUnknown
    ELSE IF DFEmpty(financials) THEN AltmanUnknown
    ELSE IF ~IsDF(balance_sheet) THEN AltmanUnknown
    ELSE IF DFEmpty(balance_sheet) THEN AltmanUnknown
    ELSE
    LET t == financials.cols[1]
        total_assets == LocOrZero(balance_sheet, "Total Assets", t)
        curr_assets == LocOrZero(balance_sheet, "Current Assets", t)
        curr_liab == LocOrZero(balance_sheet, "Current Liabilities", t)
        working_capital == FSub(curr_assets, curr_liab)
        retained_earnings == LocOrZero(balance_sheet, "Retained Earnings", t)
        pretax == Loc(financials, "Pretax Income", t)
        interest == Loc(financials, "Interest Expense", t)
        ebit == IF InIndex(financials, "EBIT") THEN Loc(financials, "EBIT", t)
                ELSE IF InIndex(financials, "Interest Expense")
                THEN IF pretax.k = "err" \/ interest.k = "err" THEN ErrV
                     ELSE FAdd(pretax, interest)
                ELSE pretax
        total_liab ==
            IF InIndex(balance_sheet, "Total Liabilities Net Minority Interest")
            THEN Loc(balance_sheet, "Total Liabilities Net Minority Interest", t)
            ELSE LocOrZero(balance_sheet, "Total Liabilities", t)
        sales == LocOrZero(financials, "Total Revenue", t)
        A == FDiv(working_capital, total_assets)
        B == FDiv(retained_earnings, total_assets)
        C == FDiv(ebit, total_assets)
        D == AltmanD(market_cap, total_liab)
        E == FDiv(sales, total_assets)
        z_score == FAdd(FAdd(FAdd(FAdd(FMul(Q(12, 10), A), FMul(Q(14, 10), B)),
                                  FMul(Q(33, 10), C)),
                             FMul(Q(6, 10), D)),
                        FMul(One, E))
    IN  IF total_assets.k = "err" THEN AltmanUnknown
        ELSE IF ~Truthy(total_assets) THEN AltmanUnknown
        ELSE IF \E v \in {curr_assets, curr_liab, retained_earnings, ebit,
                          total_liab, sales} : v.k = "err"
        THEN AltmanUnknown
        ELSE IF D.k = "err" THEN AltmanUnknown
        ELSE [score |-> Round2(z_score), zone |-> AltmanZone(z_score)]

(***************************************************************************)
(* StockAnalyzer.analyze_stock                                             *)
(***************************************************************************)
\* Variant: a criterion with the status "caution" counts as well.
TallyCaution(total_score, result) ==
    IF result.passed \/ result.status = "caution" THEN total_score + 1
    ELSE total_score

\* Lines 127-128.
Tally(total_score, result) ==
    IF result.passed THEN total_score + 1 ELSE total_score

\* The loop of lines 124-128 from criterion i on; an exception of
\* _evaluate_criterion ends it.
RECURSIVE EvaluateCriteria(_, _, _, _)
EvaluateCriteria(i, sd, metrics_results, total_score) ==
    IF i > Len(buffett_criteria)
    THEN [raised |-> FALSE, metrics |-> metrics_results, total_score |-> total_score]
    ELSE LET result == _evaluate_criterion(sd, buffett_criteria[i])
         IN  IF result.raised THEN result
             ELSE EvaluateCriteria(i + 1, sd, Append(metrics_results, result),
                                   Tally(total_score, result))

\* The snapshot after line 118.
Merged(sd) == Update(sd, _calculate_derived_metrics(sd))

\* The returned dict (without analysis_timestamp), or the exception raised.
analyze_stock(sd) ==
    LET merged == Merged(sd)
        scored == EvaluateCriteria(1, merged, <<>>, 0)
        recommendation == _generate_recommendation(merged, scored.total_score)
        raw_fin == Get(merged, "raw_financials", EmptyDF)
        raw_bs == Get(merged, "raw_balance_sheet", EmptyDF)
        raw_cf == Get(merged, "raw_cash_flow", EmptyDF)
        market_cap == GetOr(merged, "market_cap", Zero)
    IN  IF scored.raised THEN scored
        ELSE IF recommendation.raised THEN recommendation
        ELSE [raised |-> FALSE,
              total_score |-> scored.total_score,
              metrics |-> scored.metrics,
              recommendation |-> recommendation,
              advanced_metrics |->
                  [piotroski |-> get_piotroski_f_score(raw_fin, raw_bs, raw_cf),
                   roic |-> get_roic(raw_fin, raw_bs),
                   altman_z |-> get_altman_z_score(raw_fin, raw_bs, market_cap)]]

(***************************************************************************)
(* valuation_models._calculate_dcf_value                                   *)
(***************************************************************************)
\* The loop of lines 38-41 from year i on (money and growth in fixed point).
RECURSIVE DcfValueLoop(_, _, _, _, _, _)
DcfValueLoop(i, current_fcf, total_pv, growth_rate, rate, years) ==
    IF i > years THEN [current_fcf |-> current_fcf, total_pv |-> total_pv]
    ELSE LET grown == MulFactor(current_fcf, RS + growth_rate, RL)
             pv == DivPow(grown, FAdd(One, rate), i)
         IN  DcfValueLoop(i + 1, grown, total_pv + pv, growth_rate, rate, years)

_calculate_dcf_value(fcf, growth_rate, rate, terminal_rate, years) ==
    LET p == DcfValueLoop(1, fcf, 0, growth_rate, rate, years)
        terminal_fcf == MulFactor(p.current_fcf, RS + RateFix(terminal_rate), RL)
        terminal_val == DivByQ(terminal_fcf, FSub(rate, terminal_rate))
        terminal_pv == DivPow(terminal_val, FAdd(One, rate), years)
    IN  p.total_pv + terminal_pv

(***************************************************************************)
(* valuation_models.calculate_reverse_dcf                                  *)
(***************************************************************************)
\* The defaults of the keyword arguments (line 3).
reverse_dcf_defaults ==
    [discount_rate |-> Q(10, 100), terminal_growth_rate |-> Q(25, 1000),
     projection_years |-> 10]
low_start == Q(-50, 100)
high_start == Q(100, 100)
tolerance == Q(1, 100)
max_iterations == 100

\* Variant: the growth rate is returned as a fraction.
AsFraction(mid) == Q(mid, RS)

\* mid * 100 for a growth rate in fixed point, as a number.
AsPercentage(mid) == Q(mid * 25, RS \div 4)

\* Line 9: the early return of None.
ReverseDcfRejects(current_price, free_cash_flow, shares_outstanding) ==
    FLe(current_price, Zero) \/ FLe(free_cash_flow, Zero)
        \/ FLe(shares_outstanding, Zero)

\* implied_value of line 21 at the growth rate mid.
ImpliedValue(fcf_per_share, mid) ==
    _calculate_dcf_value(ToFix(fcf_per_share), mid,
                         reverse_dcf_defaults.discount_rate,
                         reverse_dcf_defaults.terminal_growth_rate,
                         reverse_dcf_defaults.projection_years)

\* Variant: the tolerance is a unit of currency, not a cent.
WithinOne(implied_value, current_price) ==
    Abs(implied_value - ToFix(current_price)) < ToFix(One)

\* Line 23.
WithinTolerance(implied_value, current_price) ==
    Abs(implied_value - ToFix(current_price)) < ToFix(tolerance)

(***************************************************************************)
(* StockAnalyzer.get_technical_indicators: the technical score             *)
(*                                                                         *)
(* `ind` holds the values read from the latest row (lines 688-696 and      *)
(* 741-742) and current_price. A comparison with NaN is False.             *)
(***************************************************************************)
\* Variant: an average that has no value yet is read as 0.
TrendPointsMissingAsZero(ind) ==
    (IF FGt(ind.current_price, IF ind.sma_200 = NaN THEN Zero ELSE ind.sma_200)
     THEN 15 ELSE 0)
        + (IF FGt(ind.current_price, IF ind.sma_50 = NaN THEN Zero ELSE ind.sma_50)
           THEN 5 ELSE 0)

\* Lines 703-707.
TrendPoints(ind) ==
    (IF FGt(ind.current_price, ind.sma_200) THEN 15 ELSE 0)
        + (IF FGt(ind.current_price, ind.sma_50) THEN 5 ELSE 0)

\* Lines 710-714.
EmaPoints(ind) == IF FGt(ind.ema_9, ind.ema_21) THEN 20 ELSE 0

\* Variant: an overbought RSI scores as much as a neutral one.
RsiPointsOverbought(rsi) ==
    IF FLe(Num(40), rsi) /\ FLe(rsi, Num(70)) THEN 15
    ELSE IF FGt(rsi, Num(70)) THEN 15
    ELSE IF FLt(rsi, Num(30)) THEN 10
    ELSE 0

\* Lines 717-724.
RsiPoints(rsi) ==
    IF FLe(Num(40), rsi) /\ FLe(rsi, Num(70)) THEN 15
    ELSE IF FGt(rsi, Num(70)) THEN 5
    ELSE IF FLt(rsi, Num(30)) THEN 10
    ELSE 0

\* Lines 727-729.
MacdPoints(ind) == IF FGt(ind.macd_line, ind.signal_line) THEN 15 ELSE 0

\* Lines 732-738.
StochasticPoints(stoch_k, stoch_d) ==
    IF FLt(stoch_k, Num(20)) /\ FGt(stoch_k, stoch_d) THEN 15
    ELSE IF FGt(stoch_k, Num(80)) /\ FLt(stoch_k, stoch_d) THEN 0
    ELSE IF FGt(stoch_k, stoch_d) THEN 10
    ELSE 0

\* Lines 744-751.
BollingerPoints(current_price, bb_upper, bb_lower) ==
    IF FGt(current_price, bb_lower) /\ FLt(current_price, bb_upper) THEN 15
    ELSE IF FGe(current_price, bb_upper) THEN 10
    ELSE IF FLe(current_price, bb_lower) THEN 5
    ELSE 0

\* tech_score after line 751.
TechnicalScore(ind) ==
    TrendPoints(ind) + EmaPoints(ind) + RsiPoints(ind.rsi) + MacdPoints(ind)
        + StochasticPoints(ind.stoch_k, ind.stoch_d)
        + BollingerPoints(ind.current_price, ind.bb_upper, ind.bb_lower)

\* signals after line 751, in the order of the appends.
TechnicalSignals(ind) ==
    (IF FGt(ind.current_price, ind.sma_200)
     THEN <<"Price > SMA200 (Long Term Bullish)">> ELSE <<>>)
    \o (IF FGt(ind.ema_9, ind.ema_21)
        THEN <<"EMA 9 > EMA 21 (Short Term Bullish)">>
        ELSE <<"EMA 9 < EMA 21 (Short Term Bearish)">>)
    \o (IF FLe(Num(40), ind.rsi) /\ FLe(ind.rsi, Num(70)) THEN <<>>
        ELSE IF FGt(ind.rsi, Num(70)) THEN <<"RSI Overbought (>70)">>
        ELSE IF FLt(ind.rsi, Num(30))
        THEN <<"RSI Oversold (<30) - Potential Bounce">>
        ELSE <<>>)
    \o (IF FGt(ind.macd_line, ind.signal_line)
        THEN <<"MACD Bullish Crossover">> ELSE <<>>)
    \o (IF FLt(ind.stoch_k, Num(20)) /\ FGt(ind.stoch_k, ind.stoch_d)
        THEN <<"Stochastic Oversold Cross (Buy)">> ELSE <<>>)
    \o (IF FGt(ind.current_price, ind.bb_lower)
           /\ FLt(ind.current_price, ind.bb_upper) THEN <<>>
        ELSE IF FGe(ind.current_price, ind.bb_upper)
        THEN <<"Price hitting Upper BB (Momentum)">>
        ELSE IF FLe(ind.current_price, ind.bb_lower)
        THEN <<"Price at Lower BB (Support)">>
        ELSE <<>>)

\* Variant: a score of exactly 60 is still Neutral.
VerdictAbove(tech_score) ==
    IF tech_score >= 80 THEN [verdict |-> "Strong Bullish", action |-> "BUY"]
    ELSE IF tech_score > 60 THEN [verdict |-> "Bullish", action |-> "ACCUMULATE"]
    ELSE IF tech_score >= 40 THEN [verdict |-> "Neutral", action |-> "HOLD"]
    ELSE [verdict |-> "Bearish", action |-> "AVOID"]

\* Lines 754-765.
Verdict(tech_score) ==
    IF tech_score >= 80 THEN [verdict |-> "Strong Bullish", action |-> "BUY"]
    ELSE IF tech_score >= 60 THEN [verdict |-> "Bullish", action |-> "ACCUMULATE"]
    ELSE IF tech_score >= 40 THEN [verdict |-> "Neutral", action |-> "HOLD"]
    ELSE [verdict |-> "Bearish", action |-> "AVOID"]

\* The dict returned at lines 767-784 (trend is the verdict again).
ComputedSnapshot(ind) ==
    LET tech_score == TechnicalScore(ind)
        v == Verdict(tech_score)
    IN  [fallback |-> FALSE, raised |-> FALSE,
         rsi |-> Round2(ind.rsi),
         sma_50 |-> Round2(ind.sma_50), sma_200 |-> Round2(ind.sma_200),
         macd |-> Round2(ind.macd_line), macd_signal |-> Round2(ind.signal_line),
         stoch_k |-> Round2(ind.stoch_k), stoch_d |-> Round2(ind.stoch_d),
         ema_9 |-> Round2(ind.ema_9), ema_21 |-> Round2(ind.ema_21),
         bb_upper |-> Round2(ind.bb_upper), bb_lower |-> Round2(ind.bb_lower),
         technical_score |-> tech_score,
         verdict |-> v.verdict, action |-> v.action,
         signals |-> TechnicalSignals(ind), trend |-> v.verdict]

(***************************************************************************)
(* StockAnalyzer._calculate_rsi on the Close column                        *)
(*                                                                         *)
(* A pandas Series is a sequence of values. Series arithmetic divides by   *)
(* zero without an exception: x / 0 is an infinity, 0 / 0 is NaN. The sign *)
(* of the infinity is not kept: 100 / (1 + rs) is 0 for either.            *)
(***************************************************************************)
NpDiv(a, b) ==
    IF FNan2(a, b) THEN NaN
    ELSE IF a.k = "inf" /\ b.k = "inf" THEN NaN
    ELSE IF b.k = "inf" THEN Zero
    ELSE IF a.k = "inf" THEN Inf
    ELSE IF b.n = 0 THEN (IF a.n = 0 THEN NaN ELSE Inf)
    ELSE FDiv(a, b)
NpAdd(a, b) ==
    IF FNan2(a, b) THEN NaN
    ELSE IF a.k = "inf" \/ b.k = "inf" THEN Inf
    ELSE FAdd(a, b)

\* Series.diff(): the first element is NaN.
Diff(series) ==
    [i \in 1..Len(series) |->
        IF i = 1 THEN NaN ELSE FSub(series[i], series[i - 1])]

\* Series.rolling(window).mean(): NaN until the window is full and over a
\* window that holds a NaN.
RECURSIVE SumOver(_, _, _)
SumOver(series, from, to) ==
    IF from > to THEN Zero
    ELSE FAdd(series[from], SumOver(series, from + 1, to))
RollingMean(series, window) ==
    [i \in 1..Len(series) |->
        IF i < window THEN NaN
        ELSE FDiv(SumOver(series, i - window + 1, i), Num(window))]

\* Line 793: delta.where(delta > 0, 0); line 794: -delta.where(delta < 0, 0).
Gains(delta) ==
    [i \in 1..Len(delta) |-> IF FGt(delta[i], Zero) THEN delta[i] ELSE Zero]
Losses(delta) ==
    [i \in 1..Len(delta) |->
        IF FLt(delta[i], Zero) THEN FSub(Zero, delta[i]) ELSE Zero]

\* Variant: the ratio taken the other way round.
LossOverGain(gain, loss) == NpDiv(loss, gain)

\* Line 796.
RelativeStrength(gain, loss) == NpDiv(gain, loss)

\* Line 797.
RsiOf(rs) ==
    LET ratio == NpDiv(Num(100), NpAdd(One, rs))
    IN  IF ratio.k = "nan" THEN NaN ELSE FSub(Num(100), ratio)

\* The RSI column of lines 792-798.
_calculate_rsi(closes, period) ==
    LET delta == Diff(closes)
        gain == RollingMean(Gains(delta), period)
        loss == RollingMean(Losses(delta), period)
    IN  [i \in 1..Len(closes) |-> RsiOf(RelativeStrength(gain[i], loss[i]))]

(***************************************************************************)
(* StockAnalyzer.get_technical_indicators                                  *)
(*                                                                         *)
(* A price history is the sequence of its rows, oldest first, each with    *)
(* its Close, High and Low. stock_data is read for symbol, current_price   *)
(* and history only; `fetched` is what yfinance answers when it is asked   *)
(* (a history, or ErrV for an exception). The histories of the model are   *)
(* shorter than the 20 bars of the Bollinger window, so the rolling        *)
(* standard deviation is NaN on every bar.                                 *)
(***************************************************************************)
History(rows) == [k |-> "hist", n |-> 0, d |-> 1, rows |-> rows]
Column(hist, name) == [i \in 1..Len(hist.rows) |-> hist.rows[i][name]]

\* Series.ewm(span=span, adjust=False).mean()
RECURSIVE EwmAt(_, _, _)
EwmAt(series, span, i) ==
    IF i = 1 THEN series[1]
    ELSE FAdd(FMul(Q(span - 1, span + 1), EwmAt(series, span, i - 1)),
              FMul(Q(2, span + 1), series[i]))
Ewm(series, span) == [i \in 1..Len(series) |-> EwmAt(series, span, i)]

\* Series.rolling(window).min() and .max()
RollingMin(series, window) ==
    [i \in 1..Len(series) |->
        IF i < window THEN NaN
        ELSE series[CHOOSE j \in (i - window + 1)..i :
                        \A l \in (i - window + 1)..i :
                            ~FLt(series[l], series[j])]]
RollingMax(series, window) ==
    [i \in 1..Len(series) |->
        IF i < window THEN NaN
        ELSE series[CHOOSE j \in (i - window + 1)..i :
                        \A l \in (i - window + 1)..i :
                            ~FGt(series[l], series[j])]]
\* Series.rolling(window).std() on fewer bars than the window
RollingStd(series, window) == [i \in 1..Len(series) |-> NaN]

\* Lines 812-818.
_calculate_macd(closes) ==
    LET exp12 == Ewm(closes, 12)
        exp26 == Ewm(closes, 26)
        MACD_Line == [i \in 1..Len(closes) |-> FSub(exp12[i], exp26[i])]
    IN  [MACD_Line |-> MACD_Line, Signal_Line |-> Ewm(MACD_Line, 9)]

\* Lines 820-826.
_calculate_bollinger_bands(closes, window) ==
    LET sma == RollingMean(closes, window)
        std == RollingStd(closes, window)
    IN  [BB_Upper |-> [i \in 1..Len(closes) |->
                          FAdd(sma[i], FMul(std[i], Num(2)))],
         BB_Lower |-> [i \in 1..Len(closes) |->
                          FSub(sma[i], FMul(std[i], Num(2)))]]

\* Lines 801-810.
_calculate_stochastic(hist, period) ==
    LET closes == Column(hist, "Close")
        low_min == RollingMin(Column(hist, "Low"), period)
        high_max == RollingMax(Column(hist, "High"), period)
        Stoch_K ==
            [i \in 1..Len(closes) |->
                FMul(Num(100), NpDiv(FSub(closes[i], low_min[i]),
                                     FSub(high_max[i], low_min[i])))]
    IN  [Stoch_K |-> Stoch_K, Stoch_D |-> RollingMean(Stoch_K, 3)]

\* Lines 828-844; current_price * 0.95 raises TypeError on None.
_get_fallback_indicators(current_price) ==
    IF ~IsNumber(current_price) THEN Raised("TypeError", 833)
    ELSE [fallback |-> TRUE, raised |-> FALSE,
          rsi |-> Num(50),
          sma_50 |-> current_price,
          sma_200 |-> FMul(current_price, Q(95, 100)),
          macd |-> Zero, macd_signal |-> Zero,
          stoch_k |-> Num(50), stoch_d |-> Num(50),
          ema_9 |-> current_price, ema_21 |-> current_price,
          bb_upper |-> FMul(current_price, Q(105, 100)),
          bb_lower |-> FMul(current_price, Q(95, 100)),
          technical_score |-> 50,
          verdict |-> "Data Not Available", action |-> "HOLD",
          signals |-> <<"Insufficient Data">>,
          trend |-> "Data Not Available"]

\* Lines 664-696: the indicator columns, read at the latest row.
LatestIndicators(hist_data, current_price) ==
    LET closes == Column(hist_data, "Close")
        latest == Len(closes)
        macd == _calculate_macd(closes)
        bands == _calculate_bollinger_bands(closes, 20)
        stochastic == _calculate_stochastic(hist_data, 14)
    IN  [current_price |-> current_price,
         sma_50 |-> RollingMean(closes, 50)[latest],
         sma_200 |-> RollingMean(closes, 200)[latest],
         rsi |-> _calculate_rsi(closes, 14)[latest],
         macd_line |-> macd.MACD_Line[latest],
         signal_line |-> macd.Signal_Line[latest],
         stoch_k |-> stochastic.Stoch_K[latest],
         stoch_d |-> stochastic.Stoch_D[latest],
         ema_9 |-> Ewm(closes, 9)[latest],
         ema_21 |-> Ewm(closes, 21)[latest],
         bb_upper |-> bands.BB_Upper[latest],
         bb_lower |-> bands.BB_Lower[latest]]

\* Line 655: the history of stock_data is there, not None and not empty.
HistoryGiven(history) == history.k = "hist" /\ history.rows # <<>>

get_technical_indicators(symbol_field, price_field, history, fetched) ==
    LET symbol == IF symbol_field.k = "absent" THEN Str("") ELSE symbol_field
        current_price == IF price_field.k = "absent" THEN Zero ELSE price_field
        hist_data == IF HistoryGiven(history) THEN history ELSE fetched
    IN  IF ~Truthy(symbol) THEN _get_fallback_indicators(current_price)
        \* yfinance raised: line 786
        ELSE IF hist_data.k # "hist" THEN _get_fallback_indicators(current_price)
        ELSE IF hist_data.rows = <<>> THEN _get_fallback_indicators(current_price)
        \* current_price > sma_200 raises TypeError on None: line 786
        ELSE IF ~Orderable(current_price)
        THEN _get_fallback_indicators(current_price)
        ELSE ComputedSnapshot(LatestIndicators(hist_data, current_price))

(***************************************************************************)
(* State                                                                   *)
(***************************************************************************)
VARIABLES
    stock_data,   \* the snapshot object handed to analyze_stock
    results,      \* what the successive calls of analyze_stock returned
    edits,        \* the number of fields set on the snapshot before the calls
    ret,          \* the last call of a function called on its own
    rdcf          \* the frame of calculate_reverse_dcf

vars == <<stock_data, results, edits, ret, rdcf>>

\* A dict with the given items.
Snapshot(items) ==
    [key \in Keys |-> IF key \in DOMAIN items THEN items[key] ELSE Absent]

\* A call of a function on its own: first its arguments, then its value.
Pending(fn, args) == [fn |-> fn, args |-> args, done |-> FALSE]
Returned(call, out) ==
    [fn |-> call.fn, args |-> call.args, done |-> TRUE, out |-> out]
NoCall == Pending("none", <<>>)
NoFrame == [pc |-> "idle"]

\* x or 0 of a read value
OrZero(v) == IF v.k \in {"absent", "none"} THEN Zero ELSE v

(***************************************************************************)
(* _generate_recommendation called on its own                              *)
(***************************************************************************)
ScoreInputs == 0..Len(buffett_criteria)
PriceInputs == {Absent, Zero, Num(-5), Num(90), Num(100), Num(135), NaN}
ValueInputs ==
    {Absent, NaN, Zero, Num(-10), Num(100), Num(112), Num(125), Num(150)}

InitRec ==
    /\ stock_data = Snapshot(<<>>)
    /\ results = <<>>
    /\ edits = 0
    /\ rdcf = NoFrame
    /\ \E total_score \in ScoreInputs, current_price \in PriceInputs,
          intrinsic_value \in ValueInputs :
           ret = Pending("_generate_recommendation",
                         [total_score |-> total_score,
                          current_price |-> current_price,
                          intrinsic_value |-> intrinsic_value])

GenerateRecommendation ==
    /\ ret.fn = "_generate_recommendation"
    /\ ~ret.done
    /\ LET sd == Snapshot([current_price |-> ret.args.current_price,
                           intrinsic_value |-> ret.args.intrinsic_value])
       IN  ret' = Returned(ret, _generate_recommendation(sd, ret.args.total_score))
    /\ UNCHANGED <<stock_data, results, edits, rdcf>>

NextRec == GenerateRecommendation
SpecRec == InitRec /\ [][NextRec]_vars

(***************************************************************************)
(* _calculate_buffett_dcf_intrinsic_value called on its own                *)
(***************************************************************************)
DcfPrices == {Absent, Zero, Q(1, 100), Num(10), Num(50)}
DcfCashFlows == {Absent, NoneV, Zero, Num(-100), Num(1), Num(500)}
DcfNetIncomes == {Absent, Zero, Num(-50), Num(100)}
DcfEps == {Absent, Zero, Num(-1), Num(5), Num(20)}
DcfShares == {Absent, Zero, Num(-10), Num(10), Num(100)}
DcfGrowths == {Absent, NoneV, Zero, Num(-20), Num(5), Num(10), Num(30)}

InitDCF ==
    /\ stock_data = Snapshot(<<>>)
    /\ results = <<>>
    /\ edits = 0
    /\ rdcf = NoFrame
    /\ \E current_price \in DcfPrices, free_cash_flow \in DcfCashFlows,
          net_income \in DcfNetIncomes, eps \in DcfEps,
          shares_outstanding \in DcfShares, earnings_growth \in DcfGrowths :
           ret = Pending("_calculate_buffett_dcf_intrinsic_value",
                         [current_price |-> current_price,
                          free_cash_flow |-> free_cash_flow,
                          net_income |-> net_income, eps |-> eps,
                          shares_outstanding |-> shares_outstanding,
                          earnings_growth |-> earnings_growth])

ForwardDCF ==
    /\ ret.fn = "_calculate_buffett_dcf_intrinsic_value"
    /\ ~ret.done
    /\ ret' = Returned(ret, _calculate_buffett_dcf_intrinsic_value(Snapshot(ret.args)))
    /\ UNCHANGED <<stock_data, results, edits, rdcf>>

NextDCF == ForwardDCF
SpecDCF == InitDCF /\ [][NextDCF]_vars

(***************************************************************************)
(* get_piotroski_f_score called on its own                                 *)
(***************************************************************************)
\* Two years of statements in which the nine tests hold.
GoodFinancials ==
    DF(<<2023, 2022>>,
       ("Net Income" :> <<Num(150), Num(100)>>)
       @@ ("Total Revenue" :> <<Num(1000), Num(800)>>)
       @@ ("Gross Profit" :> <<Num(500), Num(300)>>)
       @@ ("EBIT" :> <<Num(200), Num(150)>>))
GoodBalanceSheet ==
    DF(<<2023, 2022>>,
       ("Total Assets" :> <<Num(1000), Num(1000)>>)
       @@ ("Long Term Debt" :> <<Num(100), Num(200)>>)
       @@ ("Current Assets" :> <<Num(300), Num(200)>>)
       @@ ("Current Liabilities" :> <<Num(100), Num(100)>>)
       @@ ("Ordinary Shares Number" :> <<Num(10), Num(10)>>)
       @@ ("Retained Earnings" :> <<Num(200), Num(100)>>)
       @@ ("Stockholders Equity" :> <<Num(600), Num(500)>>)
       @@ ("Total Liabilities Net Minority Interest" :> <<Num(400), Num(500)>>))
GoodCashFlow ==
    DF(<<2023, 2022>>,
       "Total Cash From Operating Activities" :> <<Num(200), Num(100)>>)

\* The frame with one cell set, without one row, and with its first or its
\* last column only.
WithCell(df, row, i, v) == DF(df.cols, [df.rows EXCEPT ![row][i] = v])
WithoutRow(df, row) ==
    DF(df.cols, [r \in DOMAIN df.rows \ {row} |-> df.rows[r]])
FirstColumn(df) == DF(<<df.cols[1]>>, [r \in DOMAIN df.rows |-> <<df.rows[r][1]>>])
LastColumn(df) ==
    DF(<<df.cols[Len(df.cols)]>>,
       [r \in DOMAIN df.rows |-> <<df.rows[r][Len(df.cols)]>>])

CellInputs == {NaN, Zero, Num(50), Num(2000)}
PiotroskiRows ==
    {"Net Income", "Total Revenue", "Gross Profit", "Total Assets",
     "Long Term Debt", "Current Assets", "Current Liabilities",
     "Ordinary Shares Number", "Total Cash From Operating Activities"}
FrameInputs(df) ==
    {df, EmptyDF, NoneV, FirstColumn(df), LastColumn(df)}
        \cup {WithoutRow(df, row) : row \in DOMAIN df.rows \cap PiotroskiRows}
        \cup {WithCell(df, row, i, v) :
                  row \in DOMAIN df.rows \cap PiotroskiRows,
                  i \in 1..Len(df.cols), v \in CellInputs}

\* A balance sheet of one year without the total assets: the first tests
\* find no row to look up, a later one fails on the missing year.
PartialBalanceSheets ==
    {FirstColumn(WithoutRow(GoodBalanceSheet, "Total Assets")),
     LastColumn(WithoutRow(GoodBalanceSheet, "Total Assets"))}

InitPiotroski ==
    /\ stock_data = Snapshot(<<>>)
    /\ results = <<>>
    /\ edits = 0
    /\ rdcf = NoFrame
    /\ \E financials \in FrameInputs(GoodFinancials),
          balance_sheet \in FrameInputs(GoodBalanceSheet) \cup PartialBalanceSheets,
          cash_flow \in FrameInputs(GoodCashFlow) :
           ret = Pending("get_piotroski_f_score",
                         [financials |-> financials,
                          balance_sheet |-> balance_sheet,
                          cash_flow |-> cash_flow])

GetPiotroski ==
    /\ ret.fn = "get_piotroski_f_score"
    /\ ~ret.done
    /\ ret' = Returned(ret, get_piotroski_f_score(ret.args.financials,
                                                  ret.args.balance_sheet,
                                                  ret.args.cash_flow))
    /\ UNCHANGED <<stock_data, results, edits, rdcf>>

NextPiotroski == GetPiotroski
SpecPiotroski == InitPiotroski /\ [][NextPiotroski]_vars

(***************************************************************************)
(* get_altman_z_score called on its own                                    *)
(***************************************************************************)
\* An income statement of two years: the newest revenue, and the rows the
\* EBIT of line 218 is read from.
AltmanSales ==
    {Zero, Num(100), Num(181), Q(1812, 10), Num(182), Num(200), Num(299),
     Q(2992, 10), Num(300), Num(500), NaN}
AltmanProfitRows ==
    { "EBIT" :> <<Zero, Num(5)>>,
      "EBIT" :> <<Num(10), Num(5)>>,
      ("Pretax Income" :> <<Num(8), Num(4)>>)
          @@ ("Interest Expense" :> <<Num(2), Num(1)>>),
      "Pretax Income" :> <<Num(-20), Num(4)>>,
      "Interest Expense" :> <<Num(2), Num(1)>>,
      "Net Income" :> <<Num(6), Num(3)>> }
AltmanFinancials ==
    {DF(<<2023, 2022>>, ("Total Revenue" :> <<sales, Num(80)>>) @@ profit) :
         sales \in AltmanSales, profit \in AltmanProfitRows}
        \cup {DF(<<2023, 2022>>, "EBIT" :> <<Num(10), Num(5)>>)}

\* A balance sheet of two years: total assets of the newest year (or no
\* such row), the liabilities row, and the retained earnings.
AltmanAssets == {Num(100), Zero, NaN, Num(-100)}
AltmanLiabilityRows ==
    { "Long Term Debt" :> <<Num(10), Num(10)>>,
      "Total Liabilities Net Minority Interest" :> <<Num(400), Num(500)>>,
      "Total Liabilities Net Minority Interest" :> <<Zero, Num(500)>>,
      "Total Liabilities" :> <<Num(200), Num(100)>>,
      "Total Liabilities" :> <<NaN, Num(100)>> }
AltmanEarnings == {Zero, Num(50)}
AltmanWorkingRows ==
    ("Current Assets" :> <<Num(50), Num(40)>>)
        @@ ("Current Liabilities" :> <<Num(50), Num(50)>>)
AltmanBalanceSheets ==
    {DF(<<2023, 2022>>,
        ("Total Assets" :> <<total_assets, Num(100)>>)
            @@ ("Retained Earnings" :> <<retained_earnings, Zero>>)
            @@ AltmanWorkingRows @@ liabilities) :
         total_assets \in AltmanAssets, retained_earnings \in AltmanEarnings,
         liabilities \in AltmanLiabilityRows}
        \cup {DF(<<2023, 2022>>, AltmanWorkingRows @@ liabilities) :
                  liabilities \in AltmanLiabilityRows}
        \cup {DF(<<2023, 2022>>, "Total Assets" :> <<Num(100), Num(100)>>)}

\* The frames above, their one-year parts, an empty frame and None.
AltmanFrames(frames) ==
    frames \cup {FirstColumn(df) : df \in frames}
           \cup {LastColumn(df) : df \in frames}
           \cup {EmptyDF, NoneV}
AltmanMarketCaps == {Zero, Num(500), NaN, NoneV}

InitAltman ==
    /\ stock_data = Snapshot(<<>>)
    /\ results = <<>>
    /\ edits = 0
    /\ rdcf = NoFrame
    /\ \E financials \in AltmanFrames(AltmanFinancials),
          balance_sheet \in AltmanFrames(AltmanBalanceSheets),
          market_cap \in AltmanMarketCaps :
           ret = Pending("get_altman_z_score",
                         [financials |-> financials,
                          balance_sheet |-> balance_sheet,
                          market_cap |-> market_cap])

GetAltman ==
    /\ ret.fn = "get_altman_z_score"
    /\ ~ret.done
    /\ ret' = Returned(ret, get_altman_z_score(ret.args.financials,
                                               ret.args.balance_sheet,
                                               ret.args.market_cap))
    /\ UNCHANGED <<stock_data, results, edits, rdcf>>

NextAltman == GetAltman
SpecAltman == InitAltman /\ [][NextAltman]_vars

(***************************************************************************)
(* The technical score on given indicator values (SpecScore)               *)
(***************************************************************************)
ScorePrices == {Num(100)}
Sma200Inputs == {Num(90), Num(100), Num(110), NaN}
Sma50Inputs == {Num(95), Num(105), NaN}
\* <<ema_9, ema_21>> and <<macd_line, signal_line>>
EmaPairs == {<<Num(101), Num(100)>>, <<Num(100), Num(100)>>, <<Num(99), Num(100)>>}
MacdPairs == {<<One, Zero>>, <<Zero, Zero>>, <<Num(-1), Zero>>}
RsiInputs ==
    {NaN, Zero, Num(29), Num(30), Num(35), Num(40), Num(70), Q(701, 10), Num(100)}
\* <<stoch_k, stoch_d>>
StochasticPairs ==
    {<<Num(10), Num(5)>>, <<Num(10), Num(15)>>, <<Num(20), Num(10)>>,
     <<Num(50), Num(50)>>, <<Num(80), Num(85)>>, <<Num(85), Num(90)>>,
     <<Num(85), Num(80)>>, <<NaN, NaN>>}
\* <<bb_upper, bb_lower>>
BandPairs ==
    {<<Num(110), Num(90)>>, <<Num(100), Num(90)>>, <<Num(95), Num(85)>>,
     <<Num(110), Num(100)>>, <<Num(120), Num(105)>>, <<Num(100), Num(100)>>,
     <<NaN, NaN>>}

InitScore ==
    /\ stock_data = Snapshot(<<>>)
    /\ results = <<>>
    /\ edits = 0
    /\ rdcf = NoFrame
    /\ \E current_price \in ScorePrices, sma_200 \in Sma200Inputs,
          sma_50 \in Sma50Inputs, ema \in EmaPairs, rsi \in RsiInputs,
          macd \in MacdPairs, stoch \in StochasticPairs, bb \in BandPairs :
           ret = Pending("technical_score",
                         [current_price |-> current_price,
                          sma_50 |-> sma_50, sma_200 |-> sma_200,
                          ema_9 |-> ema[1], ema_21 |-> ema[2], rsi |-> rsi,
                          macd_line |-> macd[1], signal_line |-> macd[2],
                          stoch_k |-> stoch[1], stoch_d |-> stoch[2],
                          bb_upper |-> bb[1], bb_lower |-> bb[2]])

\* Lines 698-784 on the values read from the latest row.
ScoreIndicators ==
    /\ ret.fn = "technical_score"
    /\ ~ret.done
    /\ ret' = Returned(ret, ComputedSnapshot(ret.args))
    /\ UNCHANGED <<stock_data, results, edits, rdcf>>

NextScore == ScoreIndicators
SpecScore == InitScore /\ [][NextScore]_vars

(***************************************************************************)
(* _calculate_rsi called on its own (SpecRSI)                              *)
(***************************************************************************)
rsi_period == 14
\* The step from bar i to bar i + 1 of a series of the given shape.
SeriesShapes ==
    {"up1", "up3", "upvar", "down1", "down2", "downvar", "flat", "zigzag",
     "upflat", "downflat", "updown", "lastdown"}
Step(shape, i, len) ==
    CASE shape = "up1" -> 1
      [] shape = "up3" -> 3
      [] shape = "upvar" -> 1 + (i % 3)
      [] shape = "down1" -> -1
      [] shape = "down2" -> -2
      [] shape = "downvar" -> -(1 + (i % 2))
      [] shape = "flat" -> 0
      [] shape = "zigzag" -> IF i % 2 = 0 THEN 2 ELSE -1
      [] shape = "upflat" -> IF i % 2 = 0 THEN 1 ELSE 0
      [] shape = "downflat" -> IF i % 3 = 0 THEN 0 ELSE -1
      [] shape = "updown" -> IF i < 8 THEN 2 ELSE -1
      [] shape = "lastdown" -> IF i = len - 1 THEN -1 ELSE 1
RECURSIVE CloseAt(_, _, _, _)
CloseAt(shape, start, i, len) ==
    IF i = 1 THEN start
    ELSE CloseAt(shape, start, i - 1, len) + Step(shape, i - 1, len)
CloseSeries(shape, start, len) ==
    [i \in 1..len |-> Num(CloseAt(shape, start, i, len))]
SeriesLengths == 13..17
SeriesStarts == {50, 100, 200}

InitRSI ==
    /\ stock_data = Snapshot(<<>>)
    /\ results = <<>>
    /\ edits = 0
    /\ rdcf = NoFrame
    /\ \E shape \in SeriesShapes, start \in SeriesStarts, len \in SeriesLengths :
           ret = Pending("_calculate_rsi",
                         [closes |-> CloseSeries(shape, start, len)])

CalculateRsi ==
    /\ ret.fn = "_calculate_rsi"
    /\ ~ret.done
    /\ ret' = Returned(ret, _calculate_rsi(ret.args.closes, rsi_period))
    /\ UNCHANGED <<stock_data, results, edits, rdcf>>

NextRSI == CalculateRsi
SpecRSI == InitRSI /\ [][NextRSI]_vars

(***************************************************************************)
(* get_technical_indicators on short price histories (SpecTechnical)       *)
(*                                                                         *)
(* The call is drawn with symbol, current_price and history present or     *)
(* not, and with the answer yfinance gives if it is asked: an exception,   *)
(* an empty history or rows. The histories have up to 16 bars, flat but    *)
(* for the last bar.                                                       *)
(***************************************************************************)
Bar(close) == [Close |-> Num(close), High |-> Num(close + 1),
               Low |-> Num(close - 1)]
\* len bars of which all but the last close at `close`.
FlatThen(len, close, last) ==
    [i \in 1..len |-> IF i < len THEN Bar(close) ELSE Bar(last)]
ShortHistories ==
    {History(<<>>),
     History(<<Bar(100)>>), History(<<Bar(12)>>),
     History(<<Bar(100), Bar(104)>>), History(<<Bar(100), Bar(97)>>),
     History(<<Bar(100), Bar(100)>>),
     History(FlatThen(14, 100, 97)), History(FlatThen(16, 100, 97)),
     History(FlatThen(16, 100, 104)), History(FlatThen(16, 100, 100))}
TechnicalSymbols == {Absent, Str(""), Str("AAPL")}
TechnicalPrices == {Absent, NoneV, NaN, Num(100), Num(12)}
TechnicalHistories == {Absent, NoneV} \cup ShortHistories
FetchedHistories ==
    {ErrV, History(<<>>), History(<<Bar(100)>>),
     History(<<Bar(100), Bar(104)>>)}

InitTechnical ==
    /\ stock_data = Snapshot(<<>>)
    /\ results = <<>>
    /\ edits = 0
    /\ rdcf = NoFrame
    /\ \E symbol \in TechnicalSymbols, current_price \in TechnicalPrices,
          history \in TechnicalHistories, fetched \in FetchedHistories :
           ret = Pending("get_technical_indicators",
                         [symbol |-> symbol, current_price |-> current_price,
                          history |-> history, fetched |-> fetched])

GetTechnicalIndicators ==
    /\ ret.fn = "get_technical_indicators"
    /\ ~ret.done
    /\ ret' = Returned(ret, get_technical_indicators(
                                ret.args.symbol, ret.args.current_price,
                                ret.args.history, ret.args.fetched))
    /\ UNCHANGED <<stock_data, results, edits, rdcf>>

NextTechnical == GetTechnicalIndicators
SpecTechnical == InitTechnical /\ [][NextTechnical]_vars

(***************************************************************************)
(* _evaluate_criterion on a snapshot (SpecCriterion)                       *)
(*                                                                         *)
(* The call is drawn with one of the fifteen criteria and a snapshot that  *)
(* holds the fields one criterion reads: a price and an intrinsic value,   *)
(* the two growth rates, a net-income history, or one field alone.         *)
(***************************************************************************)
IntrinsicPrices ==
    {Absent, NoneV, NaN, Zero, Num(-10), Num(50), Num(80), Num(90), Num(100)}
IntrinsicValues == {Absent, NaN, Zero, Num(-5), Q(125, 2), Num(100)}
IntrinsicSnapshots ==
    {Snapshot([current_price |-> price, intrinsic_value |-> value,
               currency |-> currency]) :
        price \in IntrinsicPrices, value \in IntrinsicValues,
        currency \in {Absent, Str("USD")}}

GrowthInputs == {Absent, NoneV, NaN, Zero, Num(-8), Num(4), Num(10), Num(20)}
GrowthSnapshots ==
    {Snapshot([revenue_growth |-> revenue, earnings_growth |-> earnings,
               revenue_growth_years |-> years]) :
        revenue \in GrowthInputs, earnings \in GrowthInputs,
        years \in {Absent, One, Num(3)}}

IncomeHistories ==
    {Absent, NoneV, List(<<>>), List(<<Num(40)>>), List(<<Num(-10)>>),
     List(<<Num(40), Num(25)>>), List(<<Num(40), Num(-10)>>),
     List(<<Num(-10), Num(40)>>), List(<<Num(40), Zero>>),
     List(<<Num(4000), Num(-1), Num(4000)>>),
     List(<<Num(1), Num(40), Num(25)>>), List(<<Num(-10), Num(-20)>>),
     List(<<NaN, Num(40)>>)}
HistorySnapshots ==
    {Snapshot([net_income_history |-> history, earnings_consistency |-> ratio]) :
        history \in IncomeHistories, ratio \in {Absent, NoneV, Q(7, 10)}}

\* The fields the other criteria look up, and values on either side of
\* their thresholds.
LookupKeys ==
    {"roe", "debt_to_equity", "current_ratio", "book_value", "pe_ratio",
     "pb_ratio", "operating_margin", "roce", "peg_ratio", "earnings_growth",
     "free_cash_flow", "dividend_history"}
LookupInputs ==
    {NoneV, NaN, Inf, Bool(TRUE), Bool(FALSE), Zero, Num(-10), Q(1, 2),
     Q(9, 10), One, Q(3, 2), Num(2), Num(8), Num(11), Num(12), Num(15),
     Num(20), Num(30)}
LookupSnapshots ==
    {Snapshot([key \in {field} |-> v]) : field \in LookupKeys, v \in LookupInputs}

CriterionSnapshots ==
    IntrinsicSnapshots \cup GrowthSnapshots \cup HistorySnapshots
        \cup LookupSnapshots

InitCriterion ==
    /\ stock_data = Snapshot(<<>>)
    /\ results = <<>>
    /\ edits = 0
    /\ rdcf = NoFrame
    /\ \E sd \in CriterionSnapshots, index \in 1..Len(buffett_criteria) :
           ret = Pending("_evaluate_criterion", [sd |-> sd, index |-> index])

EvaluateCriterion ==
    /\ ret.fn = "_evaluate_criterion"
    /\ ~ret.done
    /\ ret' = Returned(ret, _evaluate_criterion(
                                ret.args.sd, buffett_criteria[ret.args.index]))
    /\ UNCHANGED <<stock_data, results, edits, rdcf>>

NextCriterion == EvaluateCriterion
SpecCriterion == InitCriterion /\ [][NextCriterion]_vars

(***************************************************************************)
(* analyze_stock on a snapshot object (Spec)                               *)
(***************************************************************************)
MaxEdits == 1
MaxCalls == 2

\* A sound company at a low price, a dear one, a snapshot that holds a price
\* only, a loss-making company, and a snapshot with null and NaN fields.
Sound ==
    Snapshot([currency |-> Str("USD"), current_price |-> Num(50),
              shares_outstanding |-> Num(10), market_cap |-> Num(500),
              pe_ratio |-> Num(12), pb_ratio |-> One, book_value |-> Num(60),
              eps |-> Num(5), dividend_yield |-> Num(2),
              total_revenue |-> Num(1000), operating_income |-> Num(200),
              net_income |-> Num(150), total_debt |-> Num(100),
              total_stockholder_equity |-> Num(500),
              total_current_assets |-> Num(300),
              total_current_liabilities |-> Num(100),
              revenue_growth |-> Num(12), earnings_growth |-> Num(12),
              revenue_growth_years |-> Num(3), earnings_growth_years |-> Num(3),
              net_income_history |-> List(<<Num(150), Num(100), Num(80)>>),
              free_cash_flow |-> Num(100),
              raw_financials |-> GoodFinancials,
              raw_balance_sheet |-> GoodBalanceSheet,
              raw_cash_flow |-> GoodCashFlow])
Dear ==
    Snapshot([currency |-> Str("INR"), current_price |-> Num(100),
              shares_outstanding |-> Num(10), market_cap |-> Num(1000),
              pe_ratio |-> Num(40), pb_ratio |-> Num(4), book_value |-> Num(25),
              eps |-> Q(5, 2), dividend_yield |-> Zero,
              total_revenue |-> Num(500), operating_income |-> Num(40),
              net_income |-> Num(25), total_debt |-> Num(300),
              total_stockholder_equity |-> Num(250),
              total_current_assets |-> Num(90),
              total_current_liabilities |-> Num(100),
              revenue_growth |-> Num(4), earnings_growth |-> Num(-3),
              net_income_history |-> List(<<Num(25), Num(-5)>>),
              free_cash_flow |-> Num(70)])
PriceOnly == Snapshot([current_price |-> Num(50)])
Loss ==
    Snapshot([currency |-> Str("USD"), current_price |-> Num(20),
              shares_outstanding |-> Num(100), market_cap |-> Num(2000),
              pb_ratio |-> Num(2), book_value |-> Num(10),
              eps |-> Q(-1, 2), total_revenue |-> Num(400),
              operating_income |-> Num(-30), net_income |-> Num(-50),
              total_debt |-> Num(600),
              total_stockholder_equity |-> Num(1000),
              total_current_assets |-> Num(200),
              total_current_liabilities |-> Num(250),
              revenue_growth |-> Num(-8), earnings_growth |-> Num(-20),
              revenue_growth_years |-> Num(2), earnings_growth_years |-> Num(2),
              net_income_history |-> List(<<Num(-50), Num(10)>>),
              free_cash_flow |-> Num(-40)])
Sparse ==
    Snapshot([currency |-> Str("EUR"), current_price |-> Num(40),
              shares_outstanding |-> NoneV, market_cap |-> NoneV,
              pe_ratio |-> NaN, pb_ratio |-> NoneV, book_value |-> NaN,
              eps |-> NoneV, dividend_yield |-> NoneV,
              total_revenue |-> Zero, operating_income |-> NoneV,
              net_income |-> NaN, total_debt |-> NoneV,
              total_stockholder_equity |-> Zero,
              total_current_liabilities |-> Zero,
              revenue_growth |-> NoneV, earnings_growth |-> NaN,
              net_income_history |-> List(<<>>),
              free_cash_flow |-> NoneV,
              raw_financials |-> EmptyDF])
Profiles == {Sound, Dear, PriceOnly, Loss, Sparse}

\* The values a field may be set to: a number of either sign, 0, None, NaN,
\* or the field deleted.
NumberInputs == {Absent, NoneV, NaN, Zero, Num(-10), Num(40)}
NumberKeys ==
    (RawKeys \cup SharedKeys)
        \ {"currency", "net_income_history", "raw_financials",
           "raw_balance_sheet", "raw_cash_flow"}
FieldInputs(key) ==
    IF key \in NumberKeys THEN NumberInputs
    ELSE IF key = "currency" THEN {Absent, NoneV, Str("EUR"), Str("CHF")}
    ELSE IF key = "net_income_history"
    THEN {Absent, NoneV, List(<<>>), List(<<Num(40)>>),
          List(<<Num(40), Num(-10)>>), List(<<NaN, Num(40)>>)}
    ELSE IF key = "raw_financials"
    THEN {Absent, EmptyDF, GoodFinancials, FirstColumn(GoodFinancials)}
    ELSE IF key = "raw_balance_sheet"
    THEN {Absent, EmptyDF, GoodBalanceSheet, LastColumn(GoodBalanceSheet)}
    ELSE {Absent, EmptyDF, GoodCashFlow}

Init ==
    /\ stock_data \in Profiles
    /\ results = <<>>
    /\ edits = 0
    /\ ret = NoCall
    /\ rdcf = NoFrame

\* The caller sets a field of the snapshot before it is analysed.
SetField ==
    /\ results = <<>>
    /\ edits < MaxEdits
    /\ \E key \in RawKeys \cup SharedKeys :
           \E v \in FieldInputs(key) :
               /\ stock_data[key] # v
               /\ stock_data' = [stock_data EXCEPT ![key] = v]
    /\ edits' = edits + 1
    /\ UNCHANGED <<results, ret, rdcf>>

\* analyze_stock(stock_data): the object is updated with the derived
\* metrics (line 118) and the outcome is returned or raised.
AnalyzeStock ==
    /\ Len(results) < MaxCalls
    /\ results' = Append(results, analyze_stock(stock_data))
    /\ stock_data' = Merged(stock_data)
    /\ UNCHANGED <<edits, ret, rdcf>>

Next == SetField \/ AnalyzeStock
Spec == Init /\ [][Next]_vars

(***************************************************************************)
(* calculate_reverse_dcf, an iteration of its loop at a time (SpecRDCF)    *)
(***************************************************************************)
RdcfPrices == {Zero, One, Num(3), Num(20), Num(75)}
RdcfCashFlows == {Num(-5), Zero, One, Num(5)}
RdcfShares == {Zero, One, Num(10)}
\* <<current_price, free_cash_flow, shares_outstanding>>; the last is a
\* price above the value at 100% growth.
RdcfCalls ==
    (RdcfPrices \X RdcfCashFlows \X RdcfShares)
        \cup {<<Num(1000), One, Num(10)>>}
\* For a price that is the output of the forward DCF: the market price and
\* the growth estimate of its snapshot.
RdcfMarketPrices == {Q(1, 2), Num(50)}
RdcfGrowths == {Num(5), Num(30)}

InitRDCF ==
    /\ stock_data = Snapshot(<<>>)
    /\ results = <<>>
    /\ edits = 0
    /\ ret = NoCall
    /\ rdcf = NoFrame

\* The frame on entry: line 9 returns None, or lines 12-17 set the search up.
Enter(current_price, free_cash_flow, shares_outstanding) ==
    IF ReverseDcfRejects(current_price, free_cash_flow, shares_outstanding)
    THEN [pc |-> "done", current_price |-> current_price,
          free_cash_flow |-> free_cash_flow,
          shares_outstanding |-> shares_outstanding,
          fcf_per_share |-> Zero, low |-> 0, high |-> 0, mid |-> 0,
          iteration |-> 0, result |-> NoneV]
    ELSE [pc |-> "loop", current_price |-> current_price,
          free_cash_flow |-> free_cash_flow,
          shares_outstanding |-> shares_outstanding,
          fcf_per_share |-> FDiv(free_cash_flow, shares_outstanding),
          low |-> RateFix(low_start), high |-> RateFix(high_start), mid |-> 0,
          iteration |-> 0, result |-> NoneV]

\* calculate_reverse_dcf(current_price, free_cash_flow, shares_outstanding)
CallReverseDCF ==
    /\ rdcf.pc = "idle"
    /\ \E call \in RdcfCalls : rdcf' = Enter(call[1], call[2], call[3])
    /\ UNCHANGED <<stock_data, results, edits, ret>>

\* The same call on the value the forward DCF gives for the cash flow and
\* the shares.
CallOnForwardValue ==
    /\ rdcf.pc = "idle"
    /\ \E market_price \in RdcfMarketPrices, free_cash_flow \in RdcfCashFlows,
          shares_outstanding \in RdcfShares, earnings_growth \in RdcfGrowths :
           rdcf' = Enter(_calculate_buffett_dcf_intrinsic_value(
                             Snapshot([current_price |-> market_price,
                                       free_cash_flow |-> free_cash_flow,
                                       shares_outstanding |-> shares_outstanding,
                                       earnings_growth |-> earnings_growth])),
                         free_cash_flow, shares_outstanding)
    /\ UNCHANGED <<stock_data, results, edits, ret>>

\* One pass of the loop of lines 19-29, with the return of line 24 or,
\* after the last pass, of line 31.
Iterate ==
    /\ rdcf.pc = "loop"
    /\ LET mid == (rdcf.low + rdcf.high) \div 2
           implied_value == ImpliedValue(rdcf.fcf_per_share, mid)
           below == implied_value < ToFix(rdcf.current_price)
           last == rdcf.iteration + 1 = max_iterations
       IN  rdcf' =
               IF WithinTolerance(implied_value, rdcf.current_price)
               THEN [rdcf EXCEPT !.pc = "done", !.mid = mid,
                                 !.iteration = rdcf.iteration + 1,
                                 !.result = AsPercentage(mid)]
               ELSE [rdcf EXCEPT !.pc = IF last THEN "done" ELSE "loop",
                                 !.mid = mid,
                                 !.low = IF below THEN mid ELSE rdcf.low,
                                 !.high = IF below THEN rdcf.high ELSE mid,
                                 !.iteration = rdcf.iteration + 1,
                                 !.result = IF last THEN AsPercentage(mid)
                                            ELSE NoneV]
    /\ UNCHANGED <<stock_data, results, edits, ret>>

NextRDCF == CallReverseDCF \/ CallOnForwardValue \/ Iterate
SpecRDCF == InitRDCF /\ [][NextRDCF]_vars

(***************************************************************************)
(* Properties of analyze_stock (Spec)                                      *)
(***************************************************************************)
Calls == 1..Len(results)
ReturnedCalls == {i \in Calls : ~results[i].raised}

Compared(r) ==
    IF r.raised THEN r
    ELSE [total_score |-> r.total_score, metrics |-> r.metrics,
          recommendation |-> r.recommendation]

\* C6: analyze_stock is idempotent: called again on the same snapshot
\* object it returns the same total_score, the same per-criterion results
\* and the same recommendation.
C6_Idempotent ==
    \A i \in Calls : \A j \in Calls : Compared(results[i]) = Compared(results[j])

\* C7: whatever fields of a non-empty snapshot are absent, zero, negative,
\* None or NaN, analyze_stock does not raise and returns a complete result:
\* total_score, 15 criterion results, a recommendation with a status of
\* Buy, Hold or Avoid, and the advanced metrics.
C7_NeverRaises ==
    \A i \in Calls :
        /\ ~results[i].raised
        /\ Len(results[i].metrics) = 15
        /\ results[i].recommendation.status \in {"Buy", "Hold", "Avoid"}
        /\ DOMAIN results[i].advanced_metrics = {"piotroski", "roic", "altman_z"}

\* The margin (1 - price / intrinsic_value) * 100.
Margin(price, intrinsic_value) ==
    Q((intrinsic_value.n * price.d - price.n * intrinsic_value.d) * 100,
      intrinsic_value.n * price.d)

\* C8: for price > 0 and intrinsic value > 0 the margin of safety of the
\* intrinsic-value criterion and the margin_of_safety of the recommendation
\* of the same analysis are the same number (1 - price / intrinsic_value) *
\* 100, and the criterion is passed exactly when the margin_of_safety of
\* the recommendation is at least 20.
C8_SameMargin ==
    \A i \in ReturnedCalls :
        LET rec == results[i].recommendation
            criterion == results[i].metrics[7]
        IN  (FGt(rec.current_price, Zero) /\ FGt(rec.intrinsic_value, Zero)) =>
                /\ criterion.key = "intrinsic_value_check"
                /\ criterion.value.fmt = "mos"
                /\ criterion.value.v = rec.margin_of_safety
                /\ rec.margin_of_safety =
                       Margin(rec.current_price, rec.intrinsic_value)
                /\ criterion.passed <=> FGe(rec.margin_of_safety, Num(20))

\* An analysis at a positive price and intrinsic value whose criterion is
\* passed on a margin of at least 20.
C8_Witness ==
    \E i \in ReturnedCalls :
        /\ FGt(results[i].recommendation.current_price, Zero)
        /\ FGt(results[i].recommendation.intrinsic_value, Zero)
        /\ results[i].metrics[7].passed
        /\ results[i].metrics[7].value.v = results[i].recommendation.margin_of_safety
        /\ FGe(results[i].recommendation.margin_of_safety, Num(20))

(***************************************************************************)
(* Properties of _generate_recommendation (SpecRec)                        *)
(***************************************************************************)
RecReturned == ret.fn = "_generate_recommendation" /\ ret.done /\ ~ret.out.raised

\* The decision table as the claims word it, first match wins.
TableStatus(score, mos) ==
    IF score >= 12 /\ FGe(mos, Num(20)) THEN "Buy"
    ELSE IF score >= 10 /\ FGe(mos, Num(10)) THEN "Buy"
    ELSE IF score >= 8 \/ FGe(mos, Zero) THEN "Hold"
    ELSE "Avoid"

C3_PriceBand ==
    RecReturned =>
        LET score == ret.args.total_score
            out == ret.out
            p == out.current_price
            iv == out.intrinsic_value
            first == score >= 12 /\ FGe(out.margin_of_safety, Num(20))
            t == IF out.status = "Hold" THEN FMul(iv, Q(8, 10))
                 ELSE FMul(iv, Q(7, 10))
        IN  /\ (out.status = "Buy" /\ first) =>
                   /\ out.buy_price_min = FMul(p, Q(95, 100))
                   /\ out.buy_price_max = FMul(p, Q(105, 100))
            /\ (out.status = "Buy" /\ ~first) =>
                   /\ out.buy_price_min = FMul(p, Q(9, 10))
                   /\ out.buy_price_max = p
            /\ out.status \in {"Hold", "Avoid"} =>
                   /\ out.buy_price_min = FMul(t, Q(9, 10))
                   /\ out.buy_price_max = t
            /\ (ret.args = [total_score |-> 13, current_price |-> Num(100),
                            intrinsic_value |-> Num(150)]) =>
                   /\ out.status = "Buy"
                   /\ out.margin_of_safety = Q(100, 3)
                   /\ out.buy_price_min = Num(95)
                   /\ out.buy_price_max = Num(105)
            /\ (FGe(p, Zero) /\ FGe(iv, Zero)) =>
                   FLe(out.buy_price_min, out.buy_price_max)

\* A Hold on a positive intrinsic value, with its band below the target.
C3_Witness ==
    /\ RecReturned
    /\ ret.out.status = "Hold"
    /\ ret.out.intrinsic_value = Num(150)
    /\ ret.out.buy_price_max = Num(120)
    /\ ret.out.buy_price_min = Num(108)

(***************************************************************************)
(* Properties of _calculate_buffett_dcf_intrinsic_value (SpecDCF)          *)
(***************************************************************************)
DcfReturned == ret.fn = "_calculate_buffett_dcf_intrinsic_value" /\ ret.done

\* The free cash flow after the estimation steps, as the claims word them:
\* net_income * 0.8, else eps * shares * 0.8, else price * shares * 0.05
\* (price * 0.05 without shares).
ClaimedCashFlow(a) ==
    LET price == OrZero(a.current_price)
        fcf == OrZero(a.free_cash_flow)
        ni == OrZero(a.net_income)
        eps == OrZero(a.eps)
        shares == OrZero(a.shares_outstanding)
    IN  IF FGt(fcf, Zero) THEN fcf
        ELSE IF FGt(ni, Zero) THEN FMul(ni, Q(8, 10))
        ELSE IF FGt(eps, Zero) /\ FGt(shares, Zero)
        THEN FMul(FMul(eps, shares), Q(8, 10))
        ELSE IF FGt(price, Zero) /\ FGt(shares, Zero)
        THEN FMul(FMul(price, shares), Q(5, 100))
        ELSE IF FGt(price, Zero) THEN FMul(price, Q(5, 100))
        ELSE fcf
FallsBack(a) ==
    FLe(ClaimedCashFlow(a), Zero) \/ FLe(OrZero(a.shares_outstanding), Zero)

C5_Fallback ==
    DcfReturned =>
        /\ FallsBack(ret.args) =>
               ret.out = IF FGt(OrZero(ret.args.eps), Zero)
                         THEN FMul(ret.args.eps, Num(12))
                         ELSE FMul(OrZero(ret.args.current_price), Q(8, 10))
        /\ (/\ ret.args.current_price = Num(50)
            /\ ret.args.free_cash_flow = Zero
            /\ ret.args.net_income = Zero
            /\ ret.args.eps = Zero
            /\ ret.args.shares_outstanding = Zero) => ret.out = Num(40)

\* The scenario of the claim, and a fallback on the earnings multiple.
C5_Witness ==
    /\ DcfReturned
    /\ ret.args.current_price = Num(50)
    /\ ret.args.free_cash_flow = Zero
    /\ ret.args.net_income = Zero
    /\ ret.args.eps = Zero
    /\ ret.args.shares_outstanding = Zero
    /\ ret.out = Num(40)

(***************************************************************************)
(* Properties of get_piotroski_f_score (SpecPiotroski)                     *)
(***************************************************************************)
PiotroskiReturned == ret.fn = "get_piotroski_f_score" /\ ret.done

\* The cell of a complete frame, an absent value (NaN) read as 0.
Cell(df, row, i) ==
    IF df.rows[row][i].k = "nan" THEN Zero ELSE df.rows[row][i]
\* x / y, and 0 for y = 0
Ratio(x, y) == IF FEq(y, Zero) THEN Zero ELSE FDiv(x, y)

\* The nine conditions of the claim on two complete years: how many hold.
ConditionsHeld(fin, bs, cf) ==
    LET ni == Cell(fin, "Net Income", 1)
        ni1 == Cell(fin, "Net Income", 2)
        ta0 == Cell(bs, "Total Assets", 1)
        ta == IF FEq(ta0, Zero) THEN One ELSE ta0
        ta10 == Cell(bs, "Total Assets", 2)
        ta1 == IF FEq(ta10, Zero) THEN ta ELSE ta10
        avg == FDiv(FAdd(ta, ta1), Num(2))
        ocf == Cell(cf, "Total Cash From Operating Activities", 1)
        rev == Cell(fin, "Total Revenue", 1)
        rev1 == Cell(fin, "Total Revenue", 2)
        held ==
            << FGt(Ratio(ni, avg), Zero),
               FGt(ocf, Zero),
               FGt(Ratio(ni, avg), Ratio(ni1, ta1)),
               FGt(ocf, ni),
               FLe(Ratio(Cell(bs, "Long Term Debt", 1), avg),
                   Ratio(Cell(bs, "Long Term Debt", 2), ta1)),
               FGt(Ratio(Cell(bs, "Current Assets", 1),
                         Cell(bs, "Current Liabilities", 1)),
                   Ratio(Cell(bs, "Current Assets", 2),
                         Cell(bs, "Current Liabilities", 2))),
               FLe(Cell(bs, "Ordinary Shares Number", 1),
                   Cell(bs, "Ordinary Shares Number", 2)),
               FGt(Ratio(Cell(fin, "Gross Profit", 1), rev),
                   Ratio(Cell(fin, "Gross Profit", 2), rev1)),
               FGt(Ratio(rev, avg), Ratio(rev1, ta1)) >>
    IN  Cardinality({i \in 1..9 : held[i]})

\* The three frames hold two years and every row the tests read.
CompleteFrames(a) ==
    /\ IsDF(a.financials) /\ IsDF(a.balance_sheet) /\ IsDF(a.cash_flow)
    /\ a.financials.cols = <<2023, 2022>>
    /\ a.balance_sheet.cols = <<2023, 2022>>
    /\ a.cash_flow.cols = <<2023, 2022>>
    /\ PiotroskiRows \subseteq
           DOMAIN a.financials.rows \cup DOMAIN a.balance_sheet.rows
               \cup DOMAIN a.cash_flow.rows

RdcfReturned == rdcf.pc = "done" /\ rdcf.result # NoneV

\* The returned percentage run forward: the value of the constant-growth
\* DCF at result / 100.
RunForward == ImpliedValue(rdcf.fcf_per_share, RateFix(FDiv(rdcf.result, Num(100))))
Reproduced == Abs(RunForward - ToFix(rdcf.current_price)) < ToFix(tolerance)

\* The price lies between the values of the DCF at the ends of the search
\* range, -50% and 100%.
PriceInRange ==
    /\ ImpliedValue(rdcf.fcf_per_share, RateFix(low_start)) <= ToFix(rdcf.current_price)
    /\ ToFix(rdcf.current_price) <= ImpliedValue(rdcf.fcf_per_share, RateFix(high_start))

EmptyOrSingleYear(df) == IsDF(df) /\ (DFEmpty(df) \/ Len(df.cols) = 1)

\* C11 as claimed: when the income statement, the balance sheet or the
\* cash-flow statement is empty or holds a single annual column,
\* get_piotroski_f_score returns score 0 with empty details.
C11_NeutralOnSingleYear ==
    PiotroskiReturned =>
        ((\E df \in {ret.args.financials, ret.args.balance_sheet,
                     ret.args.cash_flow} : EmptyOrSingleYear(df))
            => ret.out = [score |-> 0, details |-> <<>>])

(***************************************************************************)
(* Properties of get_altman_z_score (SpecAltman)                           *)
(***************************************************************************)
AltmanReturned == ret.fn = "get_altman_z_score" /\ ret.done

\* Both statements are tables with a column, and the balance sheet holds
\* the year of the first column of the income statement.
AltmanYearFound(a) ==
    /\ IsDF(a.financials) /\ IsDF(a.balance_sheet)
    /\ ~DFEmpty(a.financials) /\ ~DFEmpty(a.balance_sheet)
    /\ a.financials.cols[1] \in ColSet(a.balance_sheet)

\* The line item of that year, 0 when the statement has no such row.
Item(df, row, year) ==
    IF row \in DOMAIN df.rows
    THEN df.rows[row][CHOOSE i \in 1..Len(df.cols) : df.cols[i] = year]
    ELSE Zero

\* EBIT, or pretax income plus interest expense, or pretax income alone.
HasProfitItem(fin) ==
    "EBIT" \in DOMAIN fin.rows \/ "Pretax Income" \in DOMAIN fin.rows
ProfitItem(fin, year) ==
    IF "EBIT" \in DOMAIN fin.rows THEN Item(fin, "EBIT", year)
    ELSE FAdd(Item(fin, "Pretax Income", year),
              Item(fin, "Interest Expense", year))
LiabilityItem(bs, year) ==
    IF "Total Liabilities Net Minority Interest" \in DOMAIN bs.rows
    THEN Item(bs, "Total Liabilities Net Minority Interest", year)
    ELSE Item(bs, "Total Liabilities", year)

\* Z = 1.2 A + 1.4 B + 3.3 C + 0.6 D + 1.0 E of the claim, for the year of
\* the first column of the income statement; D is 0 on liabilities of 0.
ZValue(a) ==
    LET year == a.financials.cols[1]
        bs == a.balance_sheet
        total_assets == Item(bs, "Total Assets", year)
        liabilities == LiabilityItem(bs, year)
        A == FDiv(FSub(Item(bs, "Current Assets", year),
                       Item(bs, "Current Liabilities", year)), total_assets)
        B == FDiv(Item(bs, "Retained Earnings", year), total_assets)
        C == FDiv(ProfitItem(a.financials, year), total_assets)
        D == IF FEq(liabilities, Zero) THEN Zero
             ELSE FDiv(a.market_cap, liabilities)
        E == FDiv(Item(a.financials, "Total Revenue", year), total_assets)
    IN  FAdd(FAdd(FAdd(FAdd(FMul(Q(6, 5), A), FMul(Q(7, 5), B)),
                       FMul(Q(33, 10), C)), FMul(Q(3, 5), D)), E)

\* A Z value was computed: the zone is one of the three.
AltmanComputed == AltmanReturned /\ ret.out.zone # "Unknown"

C14_SingleYearShortCircuits ==
    ( /\ AltmanReturned
      /\ IsDF(ret.args.financials) /\ Len(ret.args.financials.cols) = 1
      /\ IsDF(ret.args.balance_sheet) /\ Len(ret.args.balance_sheet.cols) = 1 )
        => ret.out = AltmanUnknown

(***************************************************************************)
(* Properties of the technical score (SpecScore)                           *)
(***************************************************************************)
ScoreReturned == ret.fn = "technical_score" /\ ret.done

\* The component points as the claim lists them.
ClaimedPoints(a) ==
    LET price == a.current_price
        long == IF FGt(price, a.sma_200) THEN 15 ELSE 0
        medium == IF FGt(price, a.sma_50) THEN 5 ELSE 0
        fast == IF FGt(a.ema_9, a.ema_21) THEN 20 ELSE 0
        strength ==
            CASE FGe(a.rsi, Num(40)) /\ FLe(a.rsi, Num(70)) -> 15
              [] FGt(a.rsi, Num(70)) -> 5
              [] FLt(a.rsi, Num(30)) -> 10
              [] OTHER -> 0
        momentum == IF FGt(a.macd_line, a.signal_line) THEN 15 ELSE 0
        bearish_cross == FGt(a.stoch_k, Num(80)) /\ FLt(a.stoch_k, a.stoch_d)
        stochastic ==
            CASE FLt(a.stoch_k, Num(20)) /\ FGt(a.stoch_k, a.stoch_d) -> 15
              [] bearish_cross -> 0
              [] FGt(a.stoch_k, a.stoch_d) /\ ~FLt(a.stoch_k, Num(20)) -> 10
              [] OTHER -> 0
        bands ==
            IF FGt(price, a.bb_lower) /\ FLt(price, a.bb_upper) THEN 15
            ELSE IF FGe(price, a.bb_upper) THEN 10
            ELSE IF FLe(price, a.bb_lower) THEN 5
            ELSE 0
    IN  long + medium + fast + strength + momentum + stochastic + bands

\* C16: for every combination of indicator values the technical score is
\* the sum of the component points and lies in 0..100.
C16_ScoreIsSum ==
    ScoreReturned =>
        /\ ret.out.technical_score = ClaimedPoints(ret.args)
        /\ ret.out.technical_score \in 0..100

\* Every component at its most: the score is 100.
C16_Witness ==
    /\ ScoreReturned
    /\ FLe(Num(40), ret.args.rsi) /\ FLt(ret.args.stoch_k, Num(20))
    /\ ret.out.technical_score = 100

\* C17: the verdict and the action of a computed snapshot follow from the
\* score alone: >= 80 Strong Bullish/BUY, 60..79 Bullish/ACCUMULATE,
\* 40..59 Neutral/HOLD, below 40 Bearish/AVOID.
C17_VerdictByScore ==
    ScoreReturned =>
        LET score == ret.out.technical_score
            pair == <<ret.out.verdict, ret.out.action>>
        IN  /\ score >= 80 => pair = <<"Strong Bullish", "BUY">>
            /\ (60 <= score /\ score < 80) => pair = <<"Bullish", "ACCUMULATE">>
            /\ (40 <= score /\ score < 60) => pair = <<"Neutral", "HOLD">>
            /\ score < 40 => pair = <<"Bearish", "AVOID">>
            /\ ret.out.trend = ret.out.verdict

\* A score of exactly 60 is Bullish.
C17_Witness ==
    /\ ScoreReturned
    /\ ~ret.out.fallback
    /\ ret.out.technical_score = 60
    /\ ret.out.verdict = "Bullish"
    /\ ret.out.action = "ACCUMULATE"

(***************************************************************************)
(* Properties of _calculate_rsi (SpecRSI)                                  *)
(***************************************************************************)
RsiReturned == ret.fn = "_calculate_rsi" /\ ret.done

StrictlyIncreasing(series) ==
    \A i \in 2..Len(series) : FLt(series[i - 1], series[i])
StrictlyDecreasing(series) ==
    \A i \in 2..Len(series) : FGt(series[i - 1], series[i])

\* C18: on a strictly increasing close series of at least 15 bars the
\* RSI(14) of the latest bar is 100 and on a strictly decreasing one it is
\* 0; no bar's RSI is an error, and each is NaN or lies in 0..100.
C18_MonotoneRsi ==
    RsiReturned =>
        LET closes == ret.args.closes
            latest == ret.out[Len(closes)]
        IN  /\ (Len(closes) >= 15 /\ StrictlyIncreasing(closes))
                   => latest = Num(100)
            /\ (Len(closes) >= 15 /\ StrictlyDecreasing(closes))
                   => latest = Zero
            /\ \A i \in 1..Len(closes) :
                   \/ ret.out[i] = NaN
                   \/ /\ ret.out[i].k = "num"
                      /\ FLe(Zero, ret.out[i]) /\ FLe(ret.out[i], Num(100))

\* Fifteen or more rising bars with steps of different sizes: the latest
\* RSI is 100.
C18_Witness ==
    /\ RsiReturned
    /\ Len(ret.args.closes) >= 15
    /\ StrictlyIncreasing(ret.args.closes)
    /\ \E i \in 3..Len(ret.args.closes) :
           FSub(ret.args.closes[i], ret.args.closes[i - 1])
               # FSub(ret.args.closes[i - 1], ret.args.closes[i - 2])
    /\ ret.out[Len(ret.args.closes)] = Num(100)

(***************************************************************************)
(* Short price histories (SpecTechnical)                                   *)
(***************************************************************************)
TechnicalReturned == ret.fn = "get_technical_indicators" /\ ret.done

\* The history the indicators are computed from: the snapshot's own, or
\* the fetched one when the snapshot has none.
HistoryUsed(a) == IF HistoryGiven(a.history) THEN a.history ELSE a.fetched

IsFallbackSnapshot(out) ==
    /\ ~out.raised
    /\ out.technical_score = 50
    /\ out.verdict = "Data Not Available"
    /\ out.action = "HOLD"
    /\ out.signals = <<"Insufficient Data">>

\* C15: a call for a named symbol with a numeric price whose price history
\* is empty or has exactly one row returns the fallback snapshot (score
\* 50, "Data Not Available", HOLD, ["Insufficient Data"]); it neither
\* raises nor returns a computed score.
C15_FallbackOnShortHistory ==
    (/\ TechnicalReturned
     /\ Truthy(ret.args.symbol)
     /\ ret.args.current_price.k = "num"
     /\ HistoryUsed(ret.args).k = "hist"
     /\ Len(HistoryUsed(ret.args).rows) <= 1)
        => IsFallbackSnapshot(ret.out)

(***************************************************************************)
(* Criteria whose inputs are missing (Spec)                                *)
(***************************************************************************)
\* The raw fields of the snapshot each numeric criterion is derived from
\* (lines 162-189 for the derived ratios, the field itself for the others).
CriterionInputs ==
    [roe |-> {"net_income", "total_stockholder_equity"},
     debt_to_equity |-> {"total_debt", "total_stockholder_equity"},
     current_ratio |-> {"total_current_assets", "total_current_liabilities"},
     operating_margin |-> {"operating_income", "total_revenue"},
     roce |-> {"operating_income", "total_stockholder_equity", "total_debt"},
     peg_ratio |-> {"pe_ratio", "earnings_growth"},
     pe_ratio |-> {"pe_ratio"},
     pb_ratio |-> {"pb_ratio"},
     earnings_growth |-> {"earnings_growth"}]

\* A raw field is missing: the key is not in the snapshot, or it is None.
\* analyze_stock leaves these fields of the snapshot object as they were.
Missing(key) == stock_data[key].k \in {"absent", "none"}
InputsMissing(key) == \A input \in CriterionInputs[key] : Missing(input)

\* The criterion shows "N/A" and is not passed.
ShownNA(result) == result.value = NA /\ ~result.passed

\* C19: a numeric criterion (ROE, debt-to-equity, current ratio, operating
\* margin, ROCE, PEG, P/E, P/B, earnings growth) whose raw inputs are all
\* missing from the snapshot shows "N/A" and is not passed.
C19_MissingShownNA ==
    \A i \in ReturnedCalls : \A j \in 1..15 :
        LET key == buffett_criteria[j].key
        IN  (key \in DOMAIN CriterionInputs /\ InputsMissing(key))
                => ShownNA(results[i].metrics[j])

(***************************************************************************)
(* The merge of the derived metrics (Spec)                                 *)
(***************************************************************************)
\* A step of analyze_stock: one more outcome is recorded.
AnalyzeStep == Len(results') = Len(results) + 1

\* The fields the snapshot holds before the call.
PresentKeys == {key \in RawKeys \cup SharedKeys : Has(stock_data, key)}

\* C20: analyze_stock only adds derived fields to the snapshot: every raw
\* field present before the call (free_cash_flow, peg_ratio,
\* promoter_holding, net_income, current_price, ...) has the same value
\* after the call.
C20_RawFieldsKept ==
    [][AnalyzeStep => \A key \in PresentKeys : stock_data'[key] = stock_data[key]]_vars

(***************************************************************************)
(* Properties of _evaluate_criterion (SpecCriterion)                       *)
(***************************************************************************)
CriterionReturned ==
    ret.fn = "_evaluate_criterion" /\ ret.done /\ ~ret.out.raised
CriterionKey == buffett_criteria[ret.args.index].key

\* The margin of safety as the claims state it: (1 - price / value) * 100.
StatedMargin(sd) ==
    FMul(FSub(One, FDiv(sd["current_price"], sd["intrinsic_value"])), Num(100))
BothPositive(sd) ==
    /\ sd["current_price"].k = "num" /\ sd["current_price"].n > 0
    /\ sd["intrinsic_value"].k = "num" /\ sd["intrinsic_value"].n > 0

\* C21: the intrinsic-value criterion with a positive price and a positive
\* intrinsic value is passed with status good when the margin of safety is
\* at least 20, on caution and not passed when the margin is from 0 to
\* below 20, 0 included, and poor otherwise; when the price or the value is
\* not positive it shows "N/A" and is not passed.
C21_MarginBands ==
    (CriterionReturned /\ CriterionKey = "intrinsic_value_check") =>
        LET sd == ret.args.sd
            mos == StatedMargin(sd)
        IN  IF BothPositive(sd)
            THEN IF FGe(mos, Num(20))
                 THEN ret.out.passed /\ ret.out.status = "good"
                 ELSE IF FGe(mos, Zero)
                 THEN ~ret.out.passed /\ ret.out.status = "caution"
                 ELSE ~ret.out.passed /\ ret.out.status = "poor"
            ELSE ret.out.value = NA /\ ~ret.out.passed

\* A growth rate of the snapshot that is a positive number.
PositiveGrowth(sd, key) == sd[key].k = "num" /\ sd[key].n > 0
GrowthRatio(sd) ==
    FDiv(FMin(sd["revenue_growth"], sd["earnings_growth"]),
         FMax(sd["revenue_growth"], sd["earnings_growth"]))

\* C22: the growth-alignment criterion is passed exactly when revenue
\* growth and earnings growth are both above 0; when it is passed the
\* status is caution if the smaller growth over the larger is below 0.5 and
\* good otherwise; a growth that is 0, negative or missing makes it not
\* passed.
C22_GrowthAlignment ==
    (CriterionReturned /\ CriterionKey = "growth_alignment") =>
        LET sd == ret.args.sd
            both == PositiveGrowth(sd, "revenue_growth")
                        /\ PositiveGrowth(sd, "earnings_growth")
        IN  /\ ret.out.passed <=> both
            /\ ret.out.passed =>
                   ret.out.status =
                       IF FLt(GrowthRatio(sd), Q(1, 2)) THEN "caution" ELSE "good"
            /\ ~both => ~ret.out.passed

\* Both growths are positive and the smaller is two fifths of the larger:
\* passed, on caution.
C22_Witness ==
    /\ CriterionReturned
    /\ CriterionKey = "growth_alignment"
    /\ PositiveGrowth(ret.args.sd, "revenue_growth")
    /\ PositiveGrowth(ret.args.sd, "earnings_growth")
    /\ GrowthRatio(ret.args.sd) = Q(2, 5)
    /\ ret.out.passed
    /\ ret.out.status = "caution"

\* The entries of net_income_history (none when it is absent or None).
IncomeEntries(sd) ==
    IF sd["net_income_history"].k = "list" THEN sd["net_income_history"].l
    ELSE <<>>
EveryYearPositive(entries) ==
    \A i \in 1..Len(entries) : entries[i].k = "num" /\ entries[i].n > 0

\* C23: the earnings-consistency criterion is passed exactly when
\* net_income_history has at least 2 entries and every one is above 0; one
\* year that is not positive makes it poor and not passed wherever it is
\* and however small; fewer than 2 entries give "N/A (Insufficient Data)",
\* not passed. The second earnings_consistency arm of the dispatch (on the
\* looked-up ratio) never runs.
C23_EarningsConsistency ==
    (CriterionReturned /\ CriterionKey = "earnings_consistency") =>
        LET entries == IncomeEntries(ret.args.sd)
        IN  /\ ret.out.passed <=>
                   (Len(entries) >= 2 /\ EveryYearPositive(entries))
            /\ (Len(entries) >= 2 /\ ~EveryYearPositive(entries))
                   => ret.out.status = "poor"
            /\ Len(entries) < 2
                   => /\ ret.out.value = Shown("N/A (Insufficient Data)", NoneV)
                      /\ ~ret.out.passed
            /\ ret.out.branch = 492

\* Three years of which the middle one is a loss of 1 against profits of
\* 4000, on a snapshot whose earnings_consistency ratio would pass the
\* second arm: poor, not passed.
C23_Witness ==
    /\ CriterionReturned
    /\ CriterionKey = "earnings_consistency"
    /\ IncomeEntries(ret.args.sd) = <<Num(4000), Num(-1), Num(4000)>>
    /\ ret.args.sd["earnings_consistency"] = Q(7, 10)
    /\ ret.out.status = "poor"
    /\ ~ret.out.passed
    /\ ret.out.branch = 492

\* C26: in every criterion result a status of good implies passed, and
\* passed implies a status of good for every criterion but
\* growth_alignment, which alone can be passed on caution; the status has
\* no part in the score: a result adds 1 exactly when it is passed.
C26_StatusAndPassed ==
    CriterionReturned =>
        /\ ret.out.status \in {"good", "caution", "poor"}
        /\ ret.out.status = "good" => ret.out.passed
        /\ ret.out.passed =>
               \/ ret.out.status = "good"
               \/ CriterionKey = "growth_alignment" /\ ret.out.status = "caution"
        /\ Tally(0, ret.out) = IF ret.out.passed THEN 1 ELSE 0

\* The growth-alignment criterion passed on caution (growths of 4 and 20),
\* counted as 1.
C26_Witness ==
    /\ CriterionReturned
    /\ CriterionKey = "growth_alignment"
    /\ GrowthRatio(ret.args.sd) = Q(1, 5)
    /\ ret.out.passed
    /\ ret.out.status = "caution"
    /\ Tally(0, ret.out) = 1

(***************************************************************************)
(* The bisection of calculate_reverse_dcf (SpecRDCF)                       *)
(***************************************************************************)
RdcfEntered == rdcf.pc \in {"loop", "done"}
NotPositive(x) == x.k = "num" /\ x.n <= 0

\* The width of the search interval, and the width it starts with.
Width == rdcf.high - rdcf.low
InitialWidth == RateFix(high_start) - RateFix(low_start)

\* The passes that have moved an end of the interval: all of them, but for
\* the pass that returned by the tolerance test.
Narrowings ==
    IF rdcf.pc = "done" /\ ~(rdcf.low = rdcf.mid \/ rdcf.high = rdcf.mid)
    THEN rdcf.iteration - 1
    ELSE rdcf.iteration

\* The width halved exactly k times, or -1 when a halving meets an odd
\* width.
RECURSIVE HalvedExactly(_, _)
HalvedExactly(width, k) ==
    IF k = 0 THEN width
    ELSE IF width % 2 # 0 THEN -1
    ELSE HalvedExactly(width \div 2, k - 1)

\* What C24 shares with its amendment: None exactly for an argument that is
\* not positive, at most 100 passes, low <= mid <= high, and the result is
\* mid * 100 within [-50, 100].
BisectionBounded ==
    /\ (rdcf.pc = "done" /\ rdcf.result = NoneV)
           <=> (\/ NotPositive(rdcf.current_price)
                \/ NotPositive(rdcf.free_cash_flow)
                \/ NotPositive(rdcf.shares_outstanding))
    /\ rdcf.iteration <= max_iterations
    /\ rdcf.pc = "loop" => rdcf.iteration < max_iterations
    /\ rdcf.iteration >= 1 =>
           /\ rdcf.low <= rdcf.mid /\ rdcf.mid <= rdcf.high
           /\ RateFix(low_start) <= rdcf.low /\ rdcf.high <= RateFix(high_start)
    /\ (rdcf.pc = "done" /\ rdcf.result # NoneV) =>
           /\ rdcf.result = Q(rdcf.mid * 25, RS \div 4)
           /\ FLe(Num(-50), rdcf.result) /\ FLe(rdcf.result, Num(100))

PointsIf(enough, points) == IF enough THEN points ELSE 0
ScoreOfSufficient(rows, ind) ==
    PointsIf(rows >= 200, IF FGt(ind.current_price, ind.sma_200) THEN 15 ELSE 0)
        + PointsIf(rows >= 50, IF FGt(ind.current_price, ind.sma_50) THEN 5 ELSE 0)
        + EmaPoints(ind)
        + PointsIf(rows >= 14, RsiPoints(ind.rsi))
        + MacdPoints(ind)
        + PointsIf(rows >= 16, StochasticPoints(ind.stoch_k, ind.stoch_d))
        + PointsIf(rows >= 20,
                   BollingerPoints(ind.current_price, ind.bb_upper, ind.bb_lower))

PrimaryValue(a, rate) ==
    SanityBounds(DCFPerShare(ClaimedCashFlow(a), a.shares_outstanding, rate),
                 OrZero(a.current_price))
PrimaryPath(a) == ~FallsBack(a)

\* C27: on the primary path a missing earnings_growth and a growth of
\* exactly 0 give the value of a growth of 10 percent, the same value as the
\* call with earnings_growth = 10 and all other inputs equal, and a
\* negative growth is used as given.
C27_ZeroGrowthIsTen ==
    (DcfReturned /\ PrimaryPath(ret.args)) =>
        /\ ret.args.earnings_growth \in {Absent, NoneV, Zero} =>
               /\ ret.out = PrimaryValue(ret.args, Q(default_growth, 100))
               /\ ret.out = _calculate_buffett_dcf_intrinsic_value(
                                Snapshot([ret.args EXCEPT
                                    !.earnings_growth = Num(default_growth)]))
        /\ FLt(ret.args.earnings_growth, Zero) =>
               ret.out = PrimaryValue(ret.args,
                                      FDiv(ret.args.earnings_growth, Num(100)))

\* A growth of 0 whose value is the one of 10 percent and not the one of a
\* flat cash flow, and a negative growth whose value is below both.
C27_Witness ==
    /\ DcfReturned
    /\ PrimaryPath(ret.args)
    /\ ret.args.earnings_growth = Zero
    /\ ret.out = PrimaryValue(ret.args, Q(default_growth, 100))
    /\ ret.out # PrimaryValue(ret.args, Zero)
    /\ FLt(PrimaryValue(ret.args, Q(-20, 100)), PrimaryValue(ret.args, Zero))

(***************************************************************************)
(* The zone beside the rounded score (SpecAltman)                          *)
(***************************************************************************)
\* C28: whenever the zone is not Unknown it agrees with the returned score,
\* which is rounded to two decimals: Safe exactly when the score is above
\* 2.99 and Distress exactly when the score is at most 1.81.
C28_ZoneAgreesWithScore ==
    AltmanComputed =>
        /\ ret.out.zone = "Safe (Green)" <=> FGt(ret.out.score, Q(299, 100))
        /\ ret.out.zone = "Distress (Red)" <=> FLe(ret.out.score, Q(181, 100))

(***************************************************************************)
(* The details of get_piotroski_f_score (SpecPiotroski)                    *)
(***************************************************************************)
\* The entries of the details dict: one per label.
DetailLabels(details) == {details[i].label : i \in 1..Len(details)}
TrueDetails(details) == {i \in 1..Len(details) : details[i].value}

\* The three statements are tables that are not empty and hold the two
\* newest years of the income statement, so that no lookup of the nine tests
\* fails.
TwoYearInput(a) ==
    /\ IsDF(a.financials) /\ IsDF(a.balance_sheet) /\ IsDF(a.cash_flow)
    /\ ~DFEmpty(a.financials) /\ ~DFEmpty(a.balance_sheet)
    /\ ~DFEmpty(a.cash_flow)
    /\ Cardinality(ColSet(a.financials)) >= 2
    /\ LET cols == SortedDesc(ColSet(a.financials))
       IN  /\ {cols[1], cols[2]} \subseteq ColSet(a.balance_sheet)
           /\ {cols[1], cols[2]} \subseteq ColSet(a.cash_flow)

\* The evaluation was interrupted: some tests were recorded, not all nine.
Interrupted == PiotroskiReturned /\ Len(ret.out.details) \in 1..8

\* C29: in every result, also of an evaluation that an exception
\* interrupted, the score is the number of details that are true and details
\* holds at most 9 entries, one per label; an input holding both years in
\* all three statements, none of them empty, gives exactly 9 entries.
C29_ScoreCountsTrueDetails ==
    PiotroskiReturned =>
        /\ ret.out.score = Cardinality(TrueDetails(ret.out.details))
        /\ Cardinality(DetailLabels(ret.out.details)) = Len(ret.out.details)
        /\ Len(ret.out.details) <= 9
        /\ TwoYearInput(ret.args) => Len(ret.out.details) = 9

\* An evaluation interrupted after it had given points.
C29_Witness ==
    /\ Interrupted
    /\ ~TwoYearInput(ret.args)
    /\ ret.out.score >= 1
    /\ Len(ret.out.details) >= 2

(***************************************************************************)
(* data_fetcher.fetch_symbol_data: the retry loop (SpecFetch)              *)
(***************************************************************************)
max_retries == 3

\* What the data source answers to one attempt: the call that raises, if
\* any, and the info and the history it hands out otherwise.
FetchRaises == {"none", "info", "history", "cashflow"}
FetchInfos == {"None", "empty", "data"}
FetchHistories == {"empty", "data"}
Answers ==
    [raises : FetchRaises, info : FetchInfos, history : FetchHistories]
FetchSymbols == {"TCS.NS", "NOSUCH"}

\* not info
InfoFalsy(info) == info \in {"None", "empty"}
\* Line 29: hist.empty and not info
BothEmpty(answer) == answer.history = "empty" /\ InfoFalsy(answer.info)

\* Lines 42-49: the bundle that is returned.
Bundle(answer) ==
    [info |-> answer.info, history |-> answer.history,
     financials |-> "financials", balance_sheet |-> "balance_sheet",
     cashflow |-> "cashflow", major_holders |-> "major_holders"]

\* Variant: the last retry is left out.
RetriesOnce(attempt) == attempt < max_retries - 2

\* Lines 31 and 52: attempt < max_retries - 1
Retries(attempt) == attempt < max_retries - 1

\* Lines 31-34 and 52-56: sleep and continue with the next attempt, or
\* return None.
RetryOrNone(frame, answer) ==
    IF Retries(frame.attempt)
    THEN [frame EXCEPT !.attempt = @ + 1, !.log = Append(@, answer)]
    ELSE [frame EXCEPT !.done = TRUE, !.out = NoneV, !.log = Append(@, answer)]

\* Lines 20-56: one pass of the loop body for the answer of the data
\* source. The calls are made in the order of the code, so a call that would
\* raise after line 29 is not reached when info and history are both empty.
AfterAttempt(frame, answer) ==
    IF answer.raises \in {"info", "history"} THEN RetryOrNone(frame, answer)
    ELSE IF BothEmpty(answer) THEN RetryOrNone(frame, answer)
    ELSE IF answer.raises = "cashflow" THEN RetryOrNone(frame, answer)
    ELSE [frame EXCEPT !.done = TRUE, !.out = Bundle(answer),
                       !.log = Append(@, answer)]

FetchFrame(symbol) ==
    [fn |-> "fetch_symbol_data", args |-> [symbol |-> symbol], done |-> FALSE,
     attempt |-> 0, log |-> <<>>, out |-> NoneV]

InitFetch ==
    /\ stock_data = Snapshot(<<>>)
    /\ results = <<>>
    /\ edits = 0
    /\ rdcf = NoFrame
    /\ \E symbol \in FetchSymbols : ret = FetchFrame(symbol)

\* One attempt of the loop of line 19.
FetchAttempt ==
    /\ ret.fn = "fetch_symbol_data"
    /\ ~ret.done
    /\ ret.attempt < max_retries
    /\ \E answer \in Answers : ret' = AfterAttempt(ret, answer)
    /\ UNCHANGED <<stock_data, results, edits, rdcf>>

NextFetch == FetchAttempt
\* Every call to the data source returns or raises, so a pending attempt is
\* made.
SpecFetch == InitFetch /\ [][NextFetch]_vars /\ WF_vars(NextFetch)

(***************************************************************************)
(* Properties of fetch_symbol_data (SpecFetch)                             *)
(***************************************************************************)
FetchDone == ret.fn = "fetch_symbol_data" /\ ret.done

\* An attempt fails by an exception or by info and history both empty.
AttemptFailed(answer) == answer.raises # "none" \/ BothEmpty(answer)
AllFailed(log) == \A i \in 1..Len(log) : AttemptFailed(log[i])

\* The attempts made so far are at most three and all but the last failed;
\* a call that has returned gives the bundle of its last attempt when that
\* attempt did not fail, and None exactly when three attempts failed.
FetchOutcome ==
    /\ Len(ret.log) <= max_retries
    /\ \A i \in 1..(Len(ret.log) - 1) : AttemptFailed(ret.log[i])
    /\ ~ret.done => AllFailed(ret.log) /\ Len(ret.log) < max_retries
    /\ ret.done =>
           /\ Len(ret.log) >= 1
           /\ ~AttemptFailed(ret.log[Len(ret.log)]) =>
                  /\ ret.out # NoneV
                  /\ ret.out.info = ret.log[Len(ret.log)].info
                  /\ ret.out.history = ret.log[Len(ret.log)].history
                  /\ ret.out.info = "data" \/ ret.out.history = "data"
           /\ ret.out = NoneV <=>
                  (Len(ret.log) = max_retries /\ AllFailed(ret.log))

\* C30: fetch_symbol_data ends after at most 3 attempts; it returns the
\* bundle of the first attempt that raises nothing and has info or history,
\* tries again only after a failed attempt while attempts remain, and
\* returns None exactly when all 3 attempts failed.
C30_FetchTerminates == []FetchOutcome /\ <>FetchDone

\* Two failed attempts, the second by an exception after line 29, and a
\* third that returns a bundle with a history and no info.
C30_Witness ==
    /\ FetchDone
    /\ Len(ret.log) = max_retries
    /\ BothEmpty(ret.log[1])
    /\ ret.log[2].raises = "cashflow" /\ ~BothEmpty(ret.log[2])
    /\ ret.out # NoneV
    /\ ret.out.info = "None"
    /\ ret.out.history = "data"

=============================================================================
